---- MODULE Spec2Model ----
(***************************************************************************)
(* A model of rustlytodo: the Todo entity and its status machine           *)
(* (domain/todo.rs), the repository port and its two backends              *)
(* (infra/memory_repo.rs, infra/fs_repo.rs), the versioned on-disk schema  *)
(* (infra/db_schema.rs), the orchestration layer (app/service.rs,          *)
(* app/store.rs), the query engine (app/query.rs) and the edit command of  *)
(* the command line (ui/cli.rs).                                           *)
(*                                                                         *)
(* Instants are natural numbers read from a clock that never runs          *)
(* backwards.  Identifiers are small naturals; TodoId::new draws a random  *)
(* 128-bit value, which the model renders as any identifier the repository *)
(* does not hold.                                                          *)
(***************************************************************************)
EXTENDS Integers, Sequences, FiniteSets, TLC

VARIABLES
    todos,   \* JsonFileTodoRepository.todos / MemoryTodoRepository.todos
    clock,   \* what OffsetDateTime::now_utc() returns
    op,      \* the last call made: <<name, arguments...>>
    ret,     \* what the last call returned
    pc,      \* where the process is: no process, between calls, inside save_atomic
    file,    \* contents of the db file at the target path
    tmp,     \* contents of the temporary file next to it
    json,    \* save_atomic's local `json`
    prior,   \* the db file as it was when the running save_atomic was called
    result   \* the list apply_list_query returned

vars == <<todos, clock, op, ret, pc, file, tmp, json, prior, result>>

----------------------------------------------------------------------------
(* Bounds of the model *)

MaxTodos == 2
MaxClock == 1
MaxIds == 2
ResolveTodos == 11

TodoIds == 1..MaxIds
Instants == 0..MaxClock

----------------------------------------------------------------------------
(* Option<T>: None is the empty tuple, Some(x) the one-element tuple *)

None == <<>>
Some(x) == <<x>>

----------------------------------------------------------------------------
(* Text.  A string is a sequence of characters, so that trimming and case
   folding are computed.  A character is a one-letter TLA+ string, or the
   name of a character outside ASCII. *)

IsWhitespace(c) == c \in {" ", "\t"}

\* the ASCII letters the model's inputs use, as <<upper, lower>>
Letters == {<<"A", "a">>, <<"B", "b">>, <<"P", "p">>, <<"W", "w">>, <<"X", "x">>,
            <<"I", "i">>, <<"N", "n">>, <<"O", "o">>}
Digits == <<"0", "1", "2", "3", "4", "5", "6", "7", "8", "9">>

is_ascii_lowercase(c) == \E l \in Letters : l[2] = c
is_ascii_digit(c) == \E i \in 1..Len(Digits) : Digits[i] = c

char_to_ascii_lowercase(c) ==
    IF \E l \in Letters : l[1] = c THEN (CHOOSE l \in Letters : l[1] = c)[2] ELSE c
char_to_ascii_uppercase(c) ==
    IF \E l \in Letters : l[2] = c THEN (CHOOSE l \in Letters : l[2] = c)[1] ELSE c

to_ascii_lowercase(s) == [i \in 1..Len(s) |-> char_to_ascii_lowercase(s[i])]
to_ascii_uppercase(s) == [i \in 1..Len(s) |-> char_to_ascii_uppercase(s[i])]

\* str::trim: drop leading and trailing whitespace
RECURSIVE trim_start(_)
trim_start(s) ==
    IF s # <<>> /\ IsWhitespace(Head(s)) THEN trim_start(Tail(s)) ELSE s
RECURSIVE trim_end(_)
trim_end(s) ==
    IF s # <<>> /\ IsWhitespace(s[Len(s)])
    THEN trim_end(SubSeq(s, 1, Len(s) - 1)) ELSE s
trim(s) == trim_end(trim_start(s))

\* Result<T, E>
Ok(v) == <<"Ok", v>>
Err(e) == <<"Err", e>>
is_ok(r) == r[1] = "Ok"

----------------------------------------------------------------------------
(* domain/todo.rs *)

\* Title::parse
Title_parse(input) ==
    LET trimmed == trim(input)
    IN IF trimmed = <<>> THEN Err("EmptyTitle") ELSE Ok(trimmed)

\* Notes::parse; the length compared is the length of the UTF-8 encoding
NOTES_MAX_LEN == 10000
Utf8Len(c) == IF c \in {"e-acute"} THEN 2 ELSE 1
\* str::len: the bytes of the UTF-8 encoding, counted by encoded length so
\* that long strings are measured without recursion
str_len(s) ==
    LET n(k) == Cardinality({i \in 1..Len(s) : Utf8Len(s[i]) = k})
    IN n(1) + 2 * n(2) + 3 * n(3) + 4 * n(4)
Notes_parse(input) ==
    LET s == trim(input)
    IN IF str_len(s) > NOTES_MAX_LEN THEN Err("NotesTooLong") ELSE Ok(s)

\* ProjectName::parse
ProjectName_parse(input) ==
    LET trimmed == trim(input)
    IN IF trimmed = <<>> THEN Err("EmptyProjectName") ELSE Ok(trimmed)

\* Tag::parse
Tag_parse(input) ==
    LET raw == trim(input)
        normalized == to_ascii_lowercase(raw)
        ok == \A i \in 1..Len(normalized) :
                \/ is_ascii_lowercase(normalized[i])
                \/ is_ascii_digit(normalized[i])
                \/ normalized[i] \in {"-", "_"}
    IN IF raw = <<>> THEN Err("EmptyTag")
       ELSE IF ~ok THEN Err("InvalidTag")
       ELSE Ok(normalized)

\* enum Priority { P1, P2, P3, P4 } with the derived order P1 < P2 < P3 < P4
P1 == 1
P2 == 2
P3 == 3
P4 == 4
Priorities == {P1, P2, P3, P4}

\* Priority::parse
Priority_parse(input) ==
    LET s == to_ascii_uppercase(trim(input))
    IN IF s = <<"P", "1">> THEN Ok(P1)
       ELSE IF s = <<"P", "2">> THEN Ok(P2)
       ELSE IF s = <<"P", "3">> THEN Ok(P3)
       ELSE IF s = <<"P", "4">> THEN Ok(P4)
       ELSE Err("InvalidPriority")

\* DueAt::format_rfc3339 / DueAt::parse_rfc3339.  The text of instant t is
\* "T<t>Z", one digit standing for the whole date and time.
format_rfc3339(t) == <<"T", Digits[t + 1], "Z">>
parse_rfc3339(input) ==
    LET s == trim(input)
    IN IF Len(s) = 3 /\ s[1] = "T" /\ s[3] = "Z" /\ is_ascii_digit(s[2])
       THEN Ok((CHOOSE i \in 1..Len(Digits) : Digits[i] = s[2]) - 1)
       ELSE Err("InvalidDueAt")

\* enum Status { Open, Done { completed_at } }
Open == <<"Open">>
Done(completed_at) == <<"Done", completed_at>>
is_done(status) == status[1] = "Done"

inbox == <<"I", "n", "b", "o", "x">>

\* Todo::new(title): fresh id, defaults, both timestamps the same `now`
Todo_new(id, title, now) ==
    [id |-> id, title |-> title, notes |-> None, project |-> inbox,
     tags |-> {}, status |-> Open, priority |-> P3, due |-> None,
     created_at |-> now, updated_at |-> now]

\* Todo::mark_done(&mut self): the returned value and the entity afterwards
\* (two variants with a slip: one stamps a Done task again, one writes `now`
\* to the wrong timestamp)
Todo_mark_done_Restamp(t, now) ==
    IF t.status = Open
    THEN [res |-> "Ok",
          todo |-> [t EXCEPT !.status = Done(now), !.updated_at = now]]
    ELSE [res |-> "AlreadyDone", todo |-> [t EXCEPT !.status = Done(now)]]

Todo_mark_done_StampsCreated(t, now) ==
    IF t.status = Open
    THEN [res |-> "Ok",
          todo |-> [t EXCEPT !.status = Done(now), !.created_at = now]]
    ELSE [res |-> "AlreadyDone", todo |-> t]

Todo_mark_done(t, now) ==
    IF t.status = Open
    THEN [res |-> "Ok",
          todo |-> [t EXCEPT !.status = Done(now), !.updated_at = now]]
    ELSE [res |-> "AlreadyDone", todo |-> t]

\* Todo::mark_open(&mut self)
Todo_mark_open(t, now) ==
    IF is_done(t.status)
    THEN [res |-> "Ok",
          todo |-> [t EXCEPT !.status = Open, !.updated_at = now]]
    ELSE [res |-> "AlreadyOpen", todo |-> t]

\* is_overdue, but with a task counted as overdue at its due instant
is_overdue_AtDue(t, now) ==
    IF is_done(t.status) THEN FALSE
    ELSE IF t.due # None THEN t.due[1] <= now ELSE FALSE

\* Todo::is_overdue(&self, now)
is_overdue(t, now) ==
    IF is_done(t.status) THEN FALSE
    ELSE IF t.due # None THEN t.due[1] < now ELSE FALSE


\* TodoPatch: one Option per field; an optional field (notes, due) holds an
\* Option of an Option.  None is Unchanged, Some(None) is Clear,
\* Some(Some(v)), or Some(v) for a field that cannot be absent, is Set(v).
TodoPatch_default ==
    [title |-> None, notes |-> None, project |-> None, priority |-> None,
     due |-> None, tags |-> None]

PatchFields == {"title", "notes", "project", "priority", "due", "tags"}
OptionalFields == {"notes", "due"}
IsUnchanged(patch, f) == patch[f] = None
IsClear(patch, f) == f \in OptionalFields /\ patch[f] = Some(None)

\* Todo::apply_patch(&mut self, patch)
apply_patch(t, patch, now) ==
    [t EXCEPT
       !.title = IF patch.title # None THEN patch.title[1] ELSE @,
       !.notes = IF patch.notes # None THEN patch.notes[1] ELSE @,
       !.project = IF patch.project # None THEN patch.project[1] ELSE @,
       !.priority = IF patch.priority # None THEN patch.priority[1] ELSE @,
       !.due = IF patch.due # None THEN patch.due[1] ELSE @,
       !.tags = IF patch.tags # None THEN patch.tags[1] ELSE @,
       !.updated_at = now]

----------------------------------------------------------------------------
(* app/repository.rs, infra/memory_repo.rs, infra/fs_repo.rs: the repository
   port.  Both backends keep a Vec<Todo> and implement the port the same
   way, line for line. *)

\* the index of the first todo with this id, 0 when there is none
\* (`iter().find(|t| t.id == id)`)
find(ts, id) ==
    IF \E i \in 1..Len(ts) : ts[i].id = id
    THEN CHOOSE i \in 1..Len(ts) :
            /\ ts[i].id = id
            /\ \A j \in 1..(i - 1) : ts[j].id # id
    ELSE 0

\* fn add(&mut self, todo)
\* (a variant that puts the todo in front)
add_Front(ts, todo) == <<todo>> \o ts

add(ts, todo) == Append(ts, todo)

\* fn list(&self) -> Vec<Todo>
list(ts) == ts

\* fn get(&self, id) -> Option<Todo>
get(ts, id) == IF find(ts, id) = 0 THEN None ELSE Some(ts[find(ts, id)])

\* fn replace(&mut self, todo) -> bool: the returned value and the Vec afterwards
\* (a variant that pushes the todo when no stored one has its id)
replace_Upsert(ts, todo) ==
    IF find(ts, todo.id) # 0
    THEN [hit |-> TRUE, todos |-> [ts EXCEPT ![find(ts, todo.id)] = todo]]
    ELSE [hit |-> FALSE, todos |-> Append(ts, todo)]

replace(ts, todo) ==
    IF find(ts, todo.id) # 0
    THEN [hit |-> TRUE, todos |-> [ts EXCEPT ![find(ts, todo.id)] = todo]]
    ELSE [hit |-> FALSE, todos |-> ts]

\* fn set_all(&mut self, todos)
set_all(ts, new) == new

\* fn remove(&mut self, id) -> bool
\* (a variant that also drops every task stored after the removed one)
remove_Truncate(ts, id) ==
    IF find(ts, id) # 0
    THEN [hit |-> TRUE, todos |-> SubSeq(ts, 1, find(ts, id) - 1)]
    ELSE [hit |-> FALSE, todos |-> ts]

remove(ts, id) ==
    LET kept == SelectSeq(ts, LAMBDA t : t.id # id)
    IN [hit |-> Len(kept) # Len(ts), todos |-> kept]

\* what list and get hand to the caller, of "list" or of "get": its items and
\* whether they are the repository's own storage.  `self.todos.clone()` and
\* `.cloned()` hand out copies.
returned_Shared(items, of) == [items |-> items, of |-> of, shared |-> TRUE]
returned(items, of) == [items |-> items, of |-> of, shared |-> FALSE]

\* the repository after the caller changed what it was handed: untouched
\* unless the items are the repository's own
write_back(ts, r) ==
    IF ~r.shared THEN ts
    ELSE IF r.of = "list" THEN r.items
    ELSE [i \in 1..Len(ts) |->
            IF r.items # <<>> /\ ts[i].id = r.items[1].id THEN r.items[1] ELSE ts[i]]

----------------------------------------------------------------------------
(* app/service.rs, app/store.rs: the orchestration layer.  Each operator
   gives the returned value and the repository afterwards. *)

\* TodoService::add_todo / Store::add_todo
add_todo(ts, id, title, now) ==
    [ret |-> Ok(id), todos |-> add(ts, Todo_new(id, title, now))]

\* TodoService::insert_todo / Store::insert_todo
insert_todo(ts, todo) == add(ts, todo)

\* Store::insert_many
RECURSIVE insert_many(_, _)
insert_many(ts, new) ==
    IF new = <<>> THEN ts
    ELSE insert_many(insert_todo(ts, Head(new)), Tail(new))

\* TodoService::edit_todo / Store::edit_todo
\* (two variants: one patches a copy and puts the fetched task back, one adds
\* the patched copy instead of replacing the stored one)
edit_todo_DropsPatch(ts, id, patch, now) ==
    IF get(ts, id) # None
    THEN LET r == replace(ts, get(ts, id)[1])
         IN [ret |-> Ok(r.hit), todos |-> r.todos]
    ELSE [ret |-> Ok(FALSE), todos |-> ts]


edit_todo_Adds(ts, id, patch, now) ==
    IF get(ts, id) # None
    THEN [ret |-> Ok(TRUE),
          todos |-> add(ts, apply_patch(get(ts, id)[1], patch, now))]
    ELSE [ret |-> Ok(FALSE), todos |-> ts]

edit_todo(ts, id, patch, now) ==
    IF get(ts, id) # None
    THEN LET r == replace(ts, apply_patch(get(ts, id)[1], patch, now))
         IN [ret |-> Ok(r.hit), todos |-> r.todos]
    ELSE [ret |-> Ok(FALSE), todos |-> ts]

\* Store::mark_done
\* (a variant whose match sends every domain error to TodoNotFound)
Store_mark_done_OneError(ts, id, now) ==
    IF get(ts, id) = None THEN [ret |-> Err("TodoNotFound"), todos |-> ts]
    ELSE LET m == Todo_mark_done(get(ts, id)[1], now)
             r == replace(ts, m.todo)
         IN IF m.res # "Ok" THEN [ret |-> Err("TodoNotFound"), todos |-> ts]
            ELSE IF r.hit THEN [ret |-> Ok("unit"), todos |-> r.todos]
            ELSE [ret |-> Err("TodoNotFound"), todos |-> r.todos]

Store_mark_done(ts, id, now) ==
    IF get(ts, id) = None THEN [ret |-> Err("TodoNotFound"), todos |-> ts]
    ELSE LET m == Todo_mark_done(get(ts, id)[1], now)
             r == replace(ts, m.todo)
         IN IF m.res = "AlreadyDone" THEN [ret |-> Err("AlreadyDone"), todos |-> ts]
            ELSE IF m.res # "Ok" THEN [ret |-> Err("TodoNotFound"), todos |-> ts]
            ELSE IF r.hit THEN [ret |-> Ok("unit"), todos |-> r.todos]
            ELSE [ret |-> Err("TodoNotFound"), todos |-> r.todos]

\* Store::mark_open
Store_mark_open(ts, id, now) ==
    IF get(ts, id) = None THEN [ret |-> Err("TodoNotFound"), todos |-> ts]
    ELSE LET m == Todo_mark_open(get(ts, id)[1], now)
             r == replace(ts, m.todo)
         IN IF m.res = "AlreadyOpen" THEN [ret |-> Err("AlreadyOpen"), todos |-> ts]
            ELSE IF m.res # "Ok" THEN [ret |-> Err("TodoNotFound"), todos |-> ts]
            ELSE IF r.hit THEN [ret |-> Ok("unit"), todos |-> r.todos]
            ELSE [ret |-> Err("TodoNotFound"), todos |-> r.todos]

\* Store::delete
Store_delete(ts, id) ==
    LET r == remove(ts, id)
    IN [ret |-> IF r.hit THEN Ok("unit") ELSE Err("TodoNotFound"), todos |-> r.todos]

----------------------------------------------------------------------------
(* ui/cli.rs, Commands::Edit: the patch the command builds from its flags.
   A flag that takes a value is an Option<String>, `tags` a Vec<String>.
   Each `?` returns the first validation error. *)

RECURSIVE parse_tags(_)
parse_tags(tags) ==
    IF tags = <<>> THEN Ok({})
    ELSE LET r == Tag_parse(Head(tags))
             rest == parse_tags(Tail(tags))
         IN IF ~is_ok(r) THEN r
            ELSE IF ~is_ok(rest) THEN rest
            ELSE Ok({r[2]} \cup rest[2])

build_patch(flags) ==
    LET title == IF flags.title # None
                 THEN LET r == Title_parse(flags.title[1])
                      IN IF is_ok(r) THEN Ok(Some(r[2])) ELSE r
                 ELSE Ok(None)
        notes == IF flags.clear_notes THEN Ok(Some(None))
                 ELSE IF flags.notes # None
                 THEN LET r == Notes_parse(flags.notes[1])
                      IN IF is_ok(r) THEN Ok(Some(Some(r[2]))) ELSE r
                 ELSE Ok(None)
        project == IF flags.project # None
                   THEN LET r == ProjectName_parse(flags.project[1])
                        IN IF is_ok(r) THEN Ok(Some(r[2])) ELSE r
                   ELSE Ok(None)
        priority == IF flags.priority # None
                    THEN LET r == Priority_parse(flags.priority[1])
                         IN IF is_ok(r) THEN Ok(Some(r[2])) ELSE r
                    ELSE Ok(None)
        due == IF flags.clear_due THEN Ok(Some(None))
               ELSE IF flags.due # None
               THEN LET r == parse_rfc3339(flags.due[1])
                    IN IF is_ok(r) THEN Ok(Some(Some(r[2]))) ELSE r
               ELSE Ok(None)
        tags == IF flags.clear_tags THEN Ok(Some({}))
                ELSE IF flags.tags # <<>>
                THEN LET r == parse_tags(flags.tags)
                     IN IF is_ok(r) THEN Ok(Some(r[2])) ELSE r
                ELSE Ok(None)
        steps == <<title, notes, project, priority, due, tags>>
    IN IF \E k \in 1..Len(steps) : ~is_ok(steps[k])
       THEN steps[CHOOSE k \in 1..Len(steps) :
                     /\ ~is_ok(steps[k])
                     /\ \A j \in 1..(k - 1) : is_ok(steps[j])]
       ELSE Ok([title |-> title[2], notes |-> notes[2], project |-> project[2],
                priority |-> priority[2], due |-> due[2], tags |-> tags[2]])

----------------------------------------------------------------------------
(* The on-disk schema (infra/db_schema.rs).  A JSON text is <<"json", v>>
   for the value v it parses to, and anything else when it is not JSON; an
   unsigned JSON number is <<"u64", x>> with x its four 16-bit limbs, the most
   significant first. *)

CURRENT_SCHEMA_VERSION == 1

\* small numbers as u64 and u32
U64(n) == <<0, 0, 0, n>>
U32(n) == <<0, n>>

\* `x as u32` of a u64: the low 32 bits
as_u32(x) == <<x[3], x[4]>>

\* Value::as_u64: only an unsigned integer has one
as_u64(x) == IF x[1] = "u64" THEN Some(x[2]) ELSE None

\* whether a u64 is a u32, as the decoder of a u32 field asks
fits_u32(x) == x[1] = 0 /\ x[2] = 0

\* the text form of an identifier, of an instant and of a priority
encode_id(id) == <<"i", "d", Digits[id + 1]>>
encode_priority(p) == <<"P", Digits[p + 1]>>
decode_id(s) ==
    IF \E id \in 0..9 : encode_id(id) = s
    THEN Ok(CHOOSE id \in 0..9 : encode_id(id) = s)
    ELSE Err("id")
decode_priority(s) ==
    IF \E p \in Priorities : encode_priority(p) = s
    THEN Ok(CHOOSE p \in Priorities : encode_priority(p) = s)
    ELSE Err("priority")
decode_instant(s) ==
    IF \E t \in 0..9 : format_rfc3339(t) = s
    THEN Ok(CHOOSE t \in 0..9 : format_rfc3339(t) = s)
    ELSE Err("instant")

\* a set as the list of its elements
RECURSIVE set_to_list(_)
set_to_list(S) ==
    IF S = {} THEN <<>>
    ELSE LET x == CHOOSE x \in S : TRUE
         IN <<x>> \o set_to_list(S \ {x})

\* a task as its serialized value
encode_todo(t) ==
    [id |-> encode_id(t.id),
     title |-> t.title,
     notes |-> t.notes,
     project |-> t.project,
     tags |-> set_to_list(t.tags),
     status |-> IF is_done(t.status)
                THEN <<"done", format_rfc3339(t.status[2])>>
                ELSE <<"open">>,
     priority |-> encode_priority(t.priority),
     due |-> IF t.due = None THEN None ELSE Some(format_rfc3339(t.due[1])),
     created_at |-> format_rfc3339(t.created_at),
     updated_at |-> format_rfc3339(t.updated_at)]

\* the task a serialized value decodes to, or the error of its first field
\* that does not decode
decode_todo(v) ==
    LET id == decode_id(v.id)
        completed == IF v.status[1] = "done" THEN decode_instant(v.status[2]) ELSE Ok(0)
        priority == decode_priority(v.priority)
        due == IF v.due = None THEN Ok(0) ELSE decode_instant(v.due[1])
        created == decode_instant(v.created_at)
        updated == decode_instant(v.updated_at)
    IN IF \E r \in {id, completed, priority, due, created, updated} : ~is_ok(r)
       THEN Err("todo")
       ELSE Ok([id |-> id[2],
                title |-> v.title,
                notes |-> v.notes,
                project |-> v.project,
                tags |-> {v.tags[i] : i \in 1..Len(v.tags)},
                status |-> IF v.status[1] = "done" THEN Done(completed[2]) ELSE Open,
                priority |-> priority[2],
                due |-> IF v.due = None THEN None ELSE Some(due[2]),
                created_at |-> created[2],
                updated_at |-> updated[2]])

\* serde_json::to_string_pretty and serde_json::from_str
to_string_pretty(v) == <<"json", v>>
from_str(text) == IF text[1] = "json" THEN Ok(text[2]) ELSE Err("syntax")

\* serde_json::from_value::<DbFileV1>: the schema_version must be a u32 and
\* every task must decode
from_value_DbFileV1(v) ==
    IF /\ as_u64(v.schema_version) # None
       /\ fits_u32(as_u64(v.schema_version)[1])
       /\ \A i \in 1..Len(v.todos) : is_ok(decode_todo(v.todos[i]))
    THEN Ok([schema_version |-> as_u32(as_u64(v.schema_version)[1]),
             todos |-> [i \in 1..Len(v.todos) |-> decode_todo(v.todos[i])[2]]])
    ELSE Err("decode")

\* load_any(json_text)
load_any(json_text) ==
    LET v == from_str(json_text)
    IN IF ~is_ok(v) THEN Err(<<"failed parsing db JSON">>)
       ELSE LET field == v[2].schema_version
                schema_version ==
                    IF field[1] # "absent" /\ as_u64(field) # None
                    THEN as_u32(as_u64(field)[1])
                    ELSE U32(0)
            IN IF schema_version = U32(1)
               THEN LET db == from_value_DbFileV1(v[2])
                    IN IF is_ok(db) THEN Ok(db[2].todos)
                       ELSE Err(<<"failed decoding schema v1 db">>)
               ELSE Err(<<"unsupported schema_version", schema_version>>)

\* what write_current serializes when it forgets the tasks
write_current_Empty(ts) ==
    Ok(to_string_pretty([schema_version |-> <<"u64", U64(CURRENT_SCHEMA_VERSION)>>,
                         todos |-> <<>>]))

\* write_current(todos)
write_current(ts) ==
    Ok(to_string_pretty([schema_version |-> <<"u64", U64(CURRENT_SCHEMA_VERSION)>>,
                         todos |-> [i \in 1..Len(ts) |-> encode_todo(ts[i])]]))

----------------------------------------------------------------------------
(* The files of the file store (infra/fs_repo.rs).  A file is Absent or
   <<"file", text, complete, synced>>: the text being written to it, whether
   all of it is there, and whether what is there has reached the disk. *)

Absent == <<"absent">>
File(text, complete, synced) == <<"file", text, complete, synced>>
exists(f) == f[1] = "file"

\* what a reader sees: the text, or a truncated one
read_to_string(f) == IF f[3] THEN f[2] ELSE <<"truncated">>

\* the text at a path, for comparison: Absent, or the text and whether it is
\* all there
Contents(f) == IF exists(f) THEN <<f[2], f[3]>> ELSE Absent

\* File::create, write_all and sync_all of write_file_and_sync
File_create(bytes) == File(bytes, FALSE, FALSE)
write_all(f, bytes) == File(bytes, TRUE, f[4])
sync_all_Skipped(f) == f
sync_all(f) == File(f[2], f[3], TRUE)

\* what a crash can leave of a file: what had reached the disk, so an
\* unsynced file may be cut short
after_crash(f) ==
    IF exists(f) /\ ~f[4]
    THEN {File(f[2], f[3], TRUE), File(f[2], FALSE, TRUE)}
    ELSE {f}

----------------------------------------------------------------------------
(* The query engine (app/query.rs) *)

\* str::contains
contains(hay, needle) ==
    \E i \in 0..(Len(hay) - Len(needle)) :
        SubSeq(hay, i + 1, i + Len(needle)) = needle

\* str::eq_ignore_ascii_case
eq_ignore_ascii_case(a, b) == to_ascii_lowercase(a) = to_ascii_lowercase(b)

\* ListQuery::default(); a StatusFilter is "Open" or "Done", a SortKey is
\* "Due", "Priority" or "Created"
ListQuery_default ==
    [status |-> None, project |-> None, tag |-> None, search |-> None,
     overdue |-> FALSE, priority |-> None, sort |-> "Due", desc |-> FALSE]

\* retain, but with the project filter compared against the input as typed
retain_Untrimmed(t, q, now) ==
    IF q.status = Some("Open") /\ is_done(t.status) THEN FALSE
    ELSE IF q.status = Some("Done") /\ ~is_done(t.status) THEN FALSE
    ELSE IF q.project # None /\ ~eq_ignore_ascii_case(t.project, q.project[1])
    THEN FALSE
    ELSE IF q.tag # None /\ to_ascii_lowercase(trim(q.tag[1])) \notin t.tags
    THEN FALSE
    ELSE IF q.priority # None /\ t.priority # q.priority[1] THEN FALSE
    ELSE IF q.overdue /\ ~is_overdue(t, now) THEN FALSE
    ELSE IF q.search # None
    THEN LET needle == to_ascii_lowercase(trim(q.search[1]))
             title == to_ascii_lowercase(t.title)
             notes == IF t.notes # None THEN to_ascii_lowercase(t.notes[1]) ELSE <<>>
         IN IF needle = <<>> THEN TRUE
            ELSE contains(title, needle) \/ contains(notes, needle)
    ELSE TRUE

\* the closure of todos.retain: FALSE at the first filter the task fails
retain(t, q, now) ==
    IF q.status = Some("Open") /\ is_done(t.status) THEN FALSE
    ELSE IF q.status = Some("Done") /\ ~is_done(t.status) THEN FALSE
    ELSE IF q.project # None /\ ~eq_ignore_ascii_case(t.project, trim(q.project[1]))
    THEN FALSE
    ELSE IF q.tag # None /\ to_ascii_lowercase(trim(q.tag[1])) \notin t.tags
    THEN FALSE
    ELSE IF q.priority # None /\ t.priority # q.priority[1] THEN FALSE
    ELSE IF q.overdue /\ ~is_overdue(t, now) THEN FALSE
    ELSE IF q.search # None
    THEN LET needle == to_ascii_lowercase(trim(q.search[1]))
             title == to_ascii_lowercase(t.title)
             notes == IF t.notes # None THEN to_ascii_lowercase(t.notes[1]) ELSE <<>>
         IN IF needle = <<>> THEN TRUE
            ELSE contains(title, needle) \/ contains(notes, needle)
    ELSE TRUE

\* Ord::cmp of two integers
Int_cmp(a, b) == IF a < b THEN "Less" ELSE IF a = b THEN "Equal" ELSE "Greater"

\* Ord::cmp of two Option<DueAt>: the derived order of Option puts None
\* before every Some
Option_cmp(a, b) ==
    IF a = None /\ b = None THEN "Equal"
    ELSE IF a = None THEN "Less"
    ELSE IF b = None THEN "Greater"
    ELSE Int_cmp(a[1], b[1])

\* sort_cmp, but with the priorities compared the other way round
sort_cmp_P4First(a, b, sort) ==
    IF sort = "Due" THEN Option_cmp(a.due, b.due)
    ELSE IF sort = "Priority" THEN Int_cmp(b.priority, a.priority)
    ELSE Int_cmp(a.created_at, b.created_at)

\* the comparator handed to sort_by
sort_cmp(a, b, sort) ==
    IF sort = "Due" THEN Option_cmp(a.due, b.due)
    ELSE IF sort = "Priority" THEN Int_cmp(a.priority, b.priority)
    ELSE Int_cmp(a.created_at, b.created_at)

\* insert_sorted, but with x put before the elements it is equal to
insert_sorted_Unstable(sorted, x, sort) ==
    LET after == {i \in 1..Len(sorted) : sort_cmp(sorted[i], x, sort) = "Less"}
        k == IF after = {} THEN 0 ELSE CHOOSE i \in after : \A j \in after : j <= i
    IN SubSeq(sorted, 1, k) \o <<x>> \o SubSeq(sorted, k + 1, Len(sorted))

\* x put into a sorted list after every element that is not greater
insert_sorted(sorted, x, sort) ==
    LET after == {i \in 1..Len(sorted) : sort_cmp(sorted[i], x, sort) # "Greater"}
        k == IF after = {} THEN 0 ELSE CHOOSE i \in after : \A j \in after : j <= i
    IN SubSeq(sorted, 1, k) \o <<x>> \o SubSeq(sorted, k + 1, Len(sorted))

\* slice::sort_by, a stable sort
RECURSIVE sort_by(_, _)
sort_by(ts, sort) ==
    IF ts = <<>> THEN <<>>
    ELSE insert_sorted(sort_by(SubSeq(ts, 1, Len(ts) - 1), sort), ts[Len(ts)], sort)

\* Vec::reverse
reverse(ts) == [i \in 1..Len(ts) |-> ts[Len(ts) + 1 - i]]

\* apply_list_query, but without the final reversal
apply_list_query_NoReverse(ts, q, now) ==
    LET keep(t) == retain(t, q, now)
    IN sort_by(SelectSeq(ts, keep), q.sort)

\* apply_list_query(todos, q, now)
apply_list_query(ts, q, now) ==
    LET keep(t) == retain(t, q, now)
        sorted == sort_by(SelectSeq(ts, keep), q.sort)
    IN IF q.desc THEN reverse(sorted) ELSE sorted

----------------------------------------------------------------------------
(* The identifier resolver (ui/cli.rs, resolve_id_input) and the text forms
   of a TodoId (domain/todo.rs).  The identifier n stands for a UUID whose
   hyphenated text begins with "aaaa"; identifiers 1 and 3 share their first
   eight characters and differ in the last one. *)

HexDigits ==
    <<"0", "1", "2", "3", "4", "5", "6", "7", "8", "9", "a", "b", "c", "d", "e", "f">>

\* TodoId::as_uuid_str: the 36 characters of the hyphenated form
as_uuid_str(id) ==
    LET d == HexDigits[(id % 16) + 1]
        first == IF id \in {1, 3} THEN <<"a", "a", "a", "a", "1", "1", "1", "1">>
                 ELSE IF id = 2 THEN <<"a", "a", "a", "a", "2", "2", "2", "2">>
                 ELSE <<"a", "a", "a", "a", "0", "0", "0", d>>
    IN first \o <<"-", "0", "0", "0", "0", "-", "4", "0", "0", "0",
                  "-", "8", "0", "0", "0", "-",
                  "0", "0", "0", "0", "0", "0", "0", "0", "0", "0", "0", d>>

\* TodoId::short: the first 8 characters of the hyphenated form
short(id) ==
    LET full == as_uuid_str(id)
    IN SubSeq(full, 1, IF Len(full) < 8 THEN Len(full) ELSE 8)

\* str::starts_with
starts_with(text, prefix) ==
    Len(prefix) <= Len(text) /\ SubSeq(text, 1, Len(prefix)) = prefix

\* the identifiers a text can name: those of the tasks and one no task has
UuidIds == 1..(ResolveTodos + 1)

\* TodoId::parse_uuid: Ok for the hyphenated form of an identifier, in
\* either case of its hex digits, and an error for any other text
parse_uuid(s) ==
    LET named == {id \in UuidIds : as_uuid_str(id) = to_ascii_lowercase(s)}
    IN IF named # {} THEN Ok(CHOOSE id \in named : TRUE)
       ELSE Err(<<"invalid uuid">>)

\* the (id, title) pairs pushed by the loop over todos
RECURSIVE resolve_matches(_, _)
resolve_matches(ts, s) ==
    IF ts = <<>> THEN <<>>
    ELSE LET t == Head(ts)
             rest == resolve_matches(Tail(ts), s)
         IN IF short(t.id) = s \/ starts_with(as_uuid_str(t.id), s)
            THEN <<<<t.id, t.title>>>> \o rest
            ELSE rest

\* matches.into_iter().take(10), each printed as short id and title
resolve_candidates(matches) ==
    [k \in 1..(IF Len(matches) < 10 THEN Len(matches) ELSE 10) |->
        <<short(matches[k][1]), matches[k][2]>>]

\* resolve_id_input, but with the first match taken when there are several
resolve_id_input_FirstMatch(ts, input) ==
    LET s == trim(input)
        matches == resolve_matches(ts, s)
    IN IF parse_uuid(s)[1] = "Ok" THEN parse_uuid(s)
       ELSE IF str_len(s) < 4 THEN Err(<<"id prefix too short">>)
       ELSE IF Len(matches) = 0 THEN Err(<<"no todo found matching id", s>>)
       ELSE Ok(matches[1][1])

\* resolve_id_input, but with prefixes of any length looked up
resolve_id_input_AnyLength(ts, input) ==
    LET s == trim(input)
        matches == resolve_matches(ts, s)
    IN IF parse_uuid(s)[1] = "Ok" THEN parse_uuid(s)
       ELSE IF Len(matches) = 0 THEN Err(<<"no todo found matching id", s>>)
       ELSE IF Len(matches) = 1 THEN Ok(matches[1][1])
       ELSE Err(<<"ambiguous id", s, resolve_candidates(matches)>>)

\* resolve_id_input, but with a full identifier accepted only when a task
\* has it
resolve_id_input_MustExist(ts, input) ==
    LET s == trim(input)
        matches == resolve_matches(ts, s)
    IN IF str_len(s) < 4 THEN Err(<<"id prefix too short">>)
       ELSE IF Len(matches) = 0 THEN Err(<<"no todo found matching id", s>>)
       ELSE IF Len(matches) = 1 THEN Ok(matches[1][1])
       ELSE Err(<<"ambiguous id", s, resolve_candidates(matches)>>)

\* resolve_id_input(todos, input); an error is the message's fixed text
\* followed by what the message interpolates; s.len() counts bytes
resolve_id_input(ts, input) ==
    LET s == trim(input)
        matches == resolve_matches(ts, s)
    IN IF parse_uuid(s)[1] = "Ok" THEN parse_uuid(s)
       ELSE IF str_len(s) < 4 THEN Err(<<"id prefix too short">>)
       ELSE IF Len(matches) = 0 THEN Err(<<"no todo found matching id", s>>)
       ELSE IF Len(matches) = 1 THEN Ok(matches[1][1])
       ELSE Err(<<"ambiguous id", s, resolve_candidates(matches)>>)

----------------------------------------------------------------------------
(* ui/cli.rs, handle_command.  A command is a record with its name and its
   arguments.  The outcome gives the repository afterwards, the value the
   handler returns (Ok, or the error a `?` returned), the line it printed,
   and whether it called save_atomic; the save itself is a step of the file
   store. *)

\* `let x = v;`: v evaluated once and bound to the parameter of the rest
with(v, rest(_)) == CHOOSE r \in {rest(x) : x \in {v}} : TRUE

Outcome(ts, res, out, save) == [todos |-> ts, res |-> res, out |-> out, save |-> save]

\* Commands::Add: the task built from the flags, or the first error
build_todo(flags, id, now) ==
    LET title == Title_parse(flags.title)
        project == IF flags.project # None THEN ProjectName_parse(flags.project[1])
                   ELSE Ok(None)
        notes == IF flags.notes # None THEN Notes_parse(flags.notes[1]) ELSE Ok(None)
        tags == IF flags.tags # <<>> THEN parse_tags(flags.tags) ELSE Ok(None)
        priority == IF flags.priority # None THEN Priority_parse(flags.priority[1])
                    ELSE Ok(None)
        due == IF flags.due # None THEN parse_rfc3339(flags.due[1]) ELSE Ok(None)
        steps == <<title, project, notes, tags, priority, due>>
    IN IF \E k \in 1..Len(steps) : ~is_ok(steps[k])
       THEN steps[CHOOSE k \in 1..Len(steps) :
                     /\ ~is_ok(steps[k])
                     /\ \A j \in 1..(k - 1) : is_ok(steps[j])]
       ELSE LET new == Todo_new(id, title[2], now)
            IN Ok([new EXCEPT
                     !.project = IF flags.project # None THEN project[2] ELSE @,
                     !.notes = IF flags.notes # None THEN Some(notes[2]) ELSE @,
                     !.tags = IF flags.tags # <<>> THEN tags[2] ELSE @,
                     !.priority = IF flags.priority # None THEN priority[2] ELSE @,
                     !.due = IF flags.due # None THEN Some(due[2]) ELSE @])

\* Display for AppError (app/errors.rs)
AppError_display(e) ==
    IF e = "TodoNotFound" THEN "todo not found"
    ELSE IF e = "AlreadyDone" THEN "todo is already done"
    ELSE IF e = "AlreadyOpen" THEN "todo is already open"
    ELSE "refusing destructive action without confirmation (use --yes)"

\* handle_command, but with delete going ahead without --yes
handle_command_NoConfirm(ts, cmd, now, fresh) ==
    IF cmd.name = "add"
    THEN LET built == build_todo(cmd.flags, fresh, now)
         IN IF ~is_ok(built) THEN Outcome(ts, built, None, FALSE)
            ELSE Outcome(insert_todo(ts, built[2]), Ok("unit"), <<"Added">>, TRUE)
    ELSE IF cmd.name = "import"
    THEN IF cmd.format # "json" THEN Outcome(ts, Ok("unit"), <<"unknown import format">>, FALSE)
         ELSE IF ~exists(cmd.file)
         THEN Outcome(ts, Err(<<"failed reading import file">>), None, FALSE)
         ELSE LET loaded == load_any(read_to_string(cmd.file))
              IN IF ~is_ok(loaded) THEN Outcome(ts, loaded, None, FALSE)
                 ELSE Outcome(set_all(ts, loaded[2]), Ok("unit"), <<"Imported">>, TRUE)
    ELSE IF cmd.name \in {"tui", "list", "export"}
    THEN Outcome(ts, Ok("unit"), <<"shown">>, FALSE)
    ELSE with(resolve_id_input(list(ts), cmd.id), LAMBDA resolved :
            IF ~is_ok(resolved) THEN Outcome(ts, Ok("unit"), resolved[2], FALSE)
            ELSE IF cmd.name = "show"
            THEN IF get(ts, resolved[2]) = None
                 THEN Outcome(ts, Ok("unit"), <<"todo not found">>, FALSE)
                 ELSE Outcome(ts, Ok("unit"), <<"shown">>, FALSE)
            ELSE IF cmd.name = "edit"
            THEN with(build_patch(cmd.flags), LAMBDA patch :
                    IF ~is_ok(patch) THEN Outcome(ts, patch, None, FALSE)
                    ELSE with(edit_todo(ts, resolved[2], patch[2], now), LAMBDA r :
                            IF r.ret[2] THEN Outcome(r.todos, Ok("unit"), <<"Edited">>, TRUE)
                            ELSE Outcome(r.todos, Ok("unit"), <<"Failed to edit">>, FALSE)))
            ELSE with(IF cmd.name = "done" THEN Store_mark_done(ts, resolved[2], now)
                      ELSE IF cmd.name = "undone" THEN Store_mark_open(ts, resolved[2], now)
                      ELSE Store_delete(ts, resolved[2]), LAMBDA r :
                    IF is_ok(r.ret)
                    THEN Outcome(r.todos, Ok("unit"),
                                 <<IF cmd.name = "done" THEN "Done"
                                   ELSE IF cmd.name = "undone" THEN "Undone"
                                   ELSE "Deleted">>, TRUE)
                    ELSE Outcome(r.todos, Ok("unit"), <<AppError_display(r.ret[2])>>, FALSE)))

\* handle_command(store, command, out); now is the clock's reading and fresh
\* the identifier TodoId::new draws
handle_command(ts, cmd, now, fresh) ==
    IF cmd.name = "add"
    THEN LET built == build_todo(cmd.flags, fresh, now)
         IN IF ~is_ok(built) THEN Outcome(ts, built, None, FALSE)
            ELSE Outcome(insert_todo(ts, built[2]), Ok("unit"), <<"Added">>, TRUE)
    ELSE IF cmd.name = "import"
    \* the formats are json and names that are not formats; csv is not modelled
    THEN IF cmd.format # "json" THEN Outcome(ts, Ok("unit"), <<"unknown import format">>, FALSE)
         ELSE IF ~exists(cmd.file)
         THEN Outcome(ts, Err(<<"failed reading import file">>), None, FALSE)
         ELSE LET loaded == load_any(read_to_string(cmd.file))
              IN IF ~is_ok(loaded) THEN Outcome(ts, loaded, None, FALSE)
                 ELSE Outcome(set_all(ts, loaded[2]), Ok("unit"), <<"Imported">>, TRUE)
    ELSE IF cmd.name \in {"tui", "list", "export"}
    THEN Outcome(ts, Ok("unit"), <<"shown">>, FALSE)
    ELSE IF cmd.name = "delete" /\ ~cmd.yes
    THEN Outcome(ts, Ok("unit"), <<"Refusing to delete without confirmation">>, FALSE)
    ELSE with(resolve_id_input(list(ts), cmd.id), LAMBDA resolved :
            IF ~is_ok(resolved) THEN Outcome(ts, Ok("unit"), resolved[2], FALSE)
            ELSE IF cmd.name = "show"
            THEN IF get(ts, resolved[2]) = None
                 THEN Outcome(ts, Ok("unit"), <<"todo not found">>, FALSE)
                 ELSE Outcome(ts, Ok("unit"), <<"shown">>, FALSE)
            ELSE IF cmd.name = "edit"
            THEN with(build_patch(cmd.flags), LAMBDA patch :
                    IF ~is_ok(patch) THEN Outcome(ts, patch, None, FALSE)
                    ELSE with(edit_todo(ts, resolved[2], patch[2], now), LAMBDA r :
                            IF r.ret[2] THEN Outcome(r.todos, Ok("unit"), <<"Edited">>, TRUE)
                            ELSE Outcome(r.todos, Ok("unit"), <<"Failed to edit">>, FALSE)))
            ELSE with(IF cmd.name = "done" THEN Store_mark_done(ts, resolved[2], now)
                      ELSE IF cmd.name = "undone" THEN Store_mark_open(ts, resolved[2], now)
                      ELSE Store_delete(ts, resolved[2]), LAMBDA r :
                    IF is_ok(r.ret)
                    THEN Outcome(r.todos, Ok("unit"),
                                 <<IF cmd.name = "done" THEN "Done"
                                   ELSE IF cmd.name = "undone" THEN "Undone"
                                   ELSE "Deleted">>, TRUE)
                    ELSE Outcome(r.todos, Ok("unit"), <<AppError_display(r.ret[2])>>, FALSE)))

\* Store::is_empty, but true of every store
is_empty_Always(ts) == TRUE

\* Store::is_empty
is_empty(ts) == list(ts) = <<>>

\* default_todos(): the four tasks of the first run, titles shortened to their
\* first letter; ids are the identifiers TodoId::new draws, and the due time
\* is an instant of the day of `now`
default_todos(ids, now) ==
    <<[Todo_new(ids[1], <<"W">>, now) EXCEPT !.priority = P2],
      [Todo_new(ids[2], <<"P">>, now) EXCEPT !.priority = P4],
      [Todo_new(ids[3], <<"A">>, now) EXCEPT !.priority = P3],
      [Todo_new(ids[4], <<"T">>, now) EXCEPT !.priority = P1, !.due = Some(now + 1)]>>

\* save_atomic, but returning Ok without the target written
save_atomic_Unwritten(ts, f) ==
    {[ret |-> Ok(<<"unit">>), file |-> f]}

\* save_atomic run to its return, seen from the target path: the results it
\* can have, each with the target it leaves.  Every step before the rename can
\* fail, and then the target is as it was.
save_atomic(ts, f) ==
    LET doc == write_current(ts)[2]
    IN {[ret |-> Ok(<<"unit">>), file |-> sync_all(write_all(File_create(doc), doc))]}
       \cup {[ret |-> Err(<<e>>), file |-> f] :
                e \in {"failed serializing db JSON", "failed writing temp db file",
                       "failed remaining temp db file"}}

\* load_or_init run to its return: the results it can have, each with the
\* repository it returns (none on Err) and the target it leaves
load_or_init(f) ==
    IF exists(f)
    THEN LET loaded == load_any(read_to_string(f))
         IN {[ret |-> Err(<<"failed reading db file">>), todos |-> <<>>, file |-> f],
             IF is_ok(loaded) THEN [ret |-> Ok(<<"repo">>), todos |-> loaded[2], file |-> f]
             ELSE [ret |-> loaded, todos |-> <<>>, file |-> f]}
    ELSE {[ret |-> Err(<<"failed creating db parent dir">>), todos |-> <<>>, file |-> f]}
         \cup {[ret |-> IF is_ok(s.ret) THEN Ok(<<"repo">>) ELSE s.ret,
                todos |-> <<>>, file |-> s.file] : s \in save_atomic(<<>>, f)}

\* what an invocation leaves: what it returned, the tasks in memory and the
\* db file at that moment, and what happened on the way: the tasks loaded,
\* whether defaults were inserted, the tasks and the file when the command
\* was about to be handled, and the handler's outcome
Exit(res, ts, f, loaded, seeded, started, outcome) ==
    [ret |-> res, todos |-> ts, file |-> f, loaded |-> loaded, seeded |-> seeded,
     started |-> started, outcome |-> outcome]

\* what `?` and the final Ok(()) make of the handler's result: unit, or the
\* error wrapped in an anyhow::Error
into_anyhow(res) ==
    IF is_ok(res) THEN Ok(<<"unit">>) ELSE Err(<<"anyhow", res[2]>>)

\* run_inner(ctx, cli, out) on the db file f; ids and fresh are the
\* identifiers TodoId::new draws for the defaults and for `add`
run_inner(f, cmd, now, ids, fresh) ==
    UNION {
        IF ~is_ok(l.ret) THEN {Exit(l.ret, <<>>, l.file, None, FALSE, None, None)}
        ELSE LET seeded == is_empty(l.todos)
             IN UNION {UNION {
                 IF ~is_ok(s.ret)
                 THEN {Exit(s.ret, store, s.file, Some(l.todos), seeded, None, None)}
                 ELSE UNION {
                     IF outcome.save
                     THEN {Exit(w.ret, outcome.todos, w.file, Some(l.todos), seeded,
                                Some([todos |-> store, file |-> s.file]), Some(outcome)) :
                              w \in save_atomic(outcome.todos, s.file)}
                     ELSE {Exit(into_anyhow(outcome.res), outcome.todos, s.file,
                                Some(l.todos), seeded,
                                Some([todos |-> store, file |-> s.file]), Some(outcome))}
                     : outcome \in {handle_command(store, cmd, now, fresh)}}
                 : s \in IF seeded THEN save_atomic(store, l.file)
                         ELSE {[ret |-> Ok(<<"unit">>), file |-> l.file]}}
                 : store \in {IF seeded THEN insert_many(l.todos, default_todos(ids, now))
                              ELSE l.todos}}
        : l \in load_or_init(f)}

----------------------------------------------------------------------------
(* Inputs *)

TitleA == <<"A">>
TitleB == <<"B">>
NotesN == <<"n">>
ProjectW == <<"W">>
TagX == <<"x">>

\* every patch over one new value per field
AllPatches ==
    [title : {None, Some(TitleB)},
     notes : {None, Some(None), Some(Some(NotesN))},
     project : {None, Some(ProjectW)},
     priority : {None, Some(P1)},
     due : {None, Some(None), Some(Some(1))},
     tags : {None, Some({}), Some({TagX})}]

\* the patches that touch at most one field
OneFieldPatches ==
    {p \in AllPatches : Cardinality({f \in PatchFields : p[f] # None}) <= 1}

\* the flags of `edit`, well-formed and malformed values among them
AllEditFlags ==
    [title : {None, Some(<<" ", "B">>), Some(<<" ">>)},
     notes : {None, Some(<<"n", " ">>)},
     clear_notes : BOOLEAN,
     project : {None, Some(<<"W">>)},
     priority : {None, Some(<<"p", "1">>), Some(<<"p", "9">>)},
     due : {None, Some(format_rfc3339(1))},
     clear_due : BOOLEAN,
     tags : {<<>>, <<<<"X">>>>},
     clear_tags : BOOLEAN]

Ids(ts) == {ts[i].id : i \in 1..Len(ts)}

\* a task as `add` leaves it, and one that was edited in every field and
\* completed
PlainTodo(id) == Todo_new(id, TitleA, 0)
RichPatch ==
    [title |-> Some(TitleB), notes |-> Some(Some(NotesN)),
     project |-> Some(ProjectW), priority |-> Some(P2),
     due |-> Some(Some(0)), tags |-> Some({TagX})]
RichTodo(id) == Todo_mark_done(apply_patch(PlainTodo(id), RichPatch, 0), 0).todo

\* the repositories of at most MaxTodos such tasks, no id twice
RECURSIVE ReposOfLen(_)
ReposOfLen(n) ==
    IF n = 0 THEN {<<>>}
    ELSE {Append(ts, t) :
            ts \in ReposOfLen(n - 1),
            t \in {PlainTodo(id) : id \in TodoIds} \cup {RichTodo(id) : id \in TodoIds}}
SampleRepos ==
    {ts \in UNION {ReposOfLen(n) : n \in 0..MaxTodos} :
        Cardinality(Ids(ts)) = Len(ts)}

\* the variables of the file store and of the query engine, untouched by the
\* in-memory operations
fileVars == <<pc, file, tmp, json, prior>>

----------------------------------------------------------------------------
(* Spec: a repository behind the port, under add, replace and remove.  The
   todos handed in are built by the caller, as the tests of memory_repo.rs
   build them. *)

Init ==
    /\ todos = <<>>
    /\ clock = 0
    /\ op = <<"init">>
    /\ ret = None
    /\ pc = "idle"
    /\ file = Absent
    /\ tmp = Absent
    /\ json = None
    /\ prior = None
    /\ result = <<>>

\* TodoRepository::add(todo), the todo fresh from Todo::new
Add ==
    \E id \in TodoIds \ Ids(todos), title \in {TitleA, TitleB} :
        LET todo == Todo_new(id, title, clock)
        IN /\ Len(todos) < MaxTodos
           /\ todos' = add(todos, todo)
           /\ ret' = None
           /\ op' = <<"add", todo>>
           /\ UNCHANGED <<clock, fileVars, result>>

\* TodoRepository::replace(todo), the todo open or done
Replace ==
    \E id \in TodoIds, title \in {TitleA, TitleB}, done \in BOOLEAN :
        LET fresh == Todo_new(id, title, clock)
            todo == IF done THEN Todo_mark_done(fresh, clock).todo ELSE fresh
        IN /\ todos' = replace(todos, todo).todos
           /\ ret' = replace(todos, todo).hit
           /\ op' = <<"replace", todo>>
           /\ UNCHANGED <<clock, fileVars, result>>

\* TodoRepository::remove(id)
Remove ==
    \E id \in TodoIds :
        /\ todos' = remove(todos, id).todos
        /\ ret' = remove(todos, id).hit
        /\ op' = <<"remove", id>>
        /\ UNCHANGED <<clock, fileVars, result>>

Next == Add \/ Replace \/ Remove

Spec == Init /\ [][Next]_vars

----------------------------------------------------------------------------
(* SpecTodo: one Todo entity, held as the only element of `todos`, under
   Todo::new, mark_done, mark_open and apply_patch *)

TodoNew ==
    \E now \in clock..MaxClock, title \in {TitleA} :
        /\ todos = <<>>
        /\ todos' = <<Todo_new(1, title, now)>>
        /\ clock' = now
        /\ op' = <<"Todo::new", title>>
        /\ ret' = None
        /\ UNCHANGED <<fileVars, result>>

TodoMarkDone ==
    \E now \in clock..MaxClock :
        /\ todos # <<>>
        /\ todos' = <<Todo_mark_done(todos[1], now).todo>>
        /\ clock' = now
        /\ op' = <<"Todo::mark_done">>
        /\ ret' = Todo_mark_done(todos[1], now).res
        /\ UNCHANGED <<fileVars, result>>

TodoMarkOpen ==
    \E now \in clock..MaxClock :
        /\ todos # <<>>
        /\ todos' = <<Todo_mark_open(todos[1], now).todo>>
        /\ clock' = now
        /\ op' = <<"Todo::mark_open">>
        /\ ret' = Todo_mark_open(todos[1], now).res
        /\ UNCHANGED <<fileVars, result>>

TodoApplyPatch ==
    \E now \in clock..MaxClock, patch \in OneFieldPatches :
        /\ todos # <<>>
        /\ todos' = <<apply_patch(todos[1], patch, now)>>
        /\ clock' = now
        /\ op' = <<"Todo::apply_patch", patch>>
        /\ ret' = None
        /\ UNCHANGED <<fileVars, result>>

\* todo.is_overdue(now): now is an argument, any instant up to one past the
\* latest due instant
TodoIsOverdue ==
    \E now \in 0..(MaxClock + 1) :
        /\ todos # <<>>
        /\ result' = <<is_overdue(todos[1], now)>>
        /\ op' = <<"Todo::is_overdue", now>>
        /\ UNCHANGED <<todos, clock, ret, fileVars>>

NextTodo == TodoNew \/ TodoMarkDone \/ TodoMarkOpen \/ TodoApplyPatch \/ TodoIsOverdue

SpecTodo == Init /\ [][NextTodo]_vars

----------------------------------------------------------------------------
(* SpecCall: one call of the orchestration layer on a Store that holds a
   repository of tasks.  `edit` builds its patch from the command's flags and
   hands it to Store::edit_todo. *)

InitCall ==
    /\ todos \in SampleRepos
    /\ clock = 0
    /\ op = <<"init">>
    /\ ret = None
    /\ pc = "idle"
    /\ file = Absent
    /\ tmp = Absent
    /\ json = None
    /\ prior = None
    /\ result = <<>>

\* Store::add_todo(title)
AddTodo ==
    /\ op = <<"init">>
    /\ \E now \in clock..MaxClock, id \in TodoIds \ Ids(todos), title \in {TitleA} :
        /\ Len(todos) < MaxTodos
        /\ todos' = add_todo(todos, id, title, now).todos
        /\ ret' = add_todo(todos, id, title, now).ret
        /\ clock' = now
        /\ op' = <<"add_todo", title>>
        /\ UNCHANGED <<fileVars, result>>

\* Store::mark_done(id)
MarkDone ==
    /\ op = <<"init">>
    /\ \E now \in clock..MaxClock, id \in TodoIds :
        /\ todos' = Store_mark_done(todos, id, now).todos
        /\ ret' = Store_mark_done(todos, id, now).ret
        /\ clock' = now
        /\ op' = <<"mark_done", id>>
        /\ UNCHANGED <<fileVars, result>>

\* Store::mark_open(id)
MarkOpen ==
    /\ op = <<"init">>
    /\ \E now \in clock..MaxClock, id \in TodoIds :
        /\ todos' = Store_mark_open(todos, id, now).todos
        /\ ret' = Store_mark_open(todos, id, now).ret
        /\ clock' = now
        /\ op' = <<"mark_open", id>>
        /\ UNCHANGED <<fileVars, result>>

\* Store::delete(id)
Delete ==
    /\ op = <<"init">>
    /\ \E id \in TodoIds :
        /\ todos' = Store_delete(todos, id).todos
        /\ ret' = Store_delete(todos, id).ret
        /\ op' = <<"delete", id>>
        /\ UNCHANGED <<clock, fileVars, result>>

\* what the edit command builds from its flags: the patches, and the errors
\* of the flags it rejects
BuiltPatches ==
    {build_patch(flags)[2] :
        flags \in {g \in AllEditFlags : is_ok(build_patch(g))}}
BuiltErrors ==
    {build_patch(flags) :
        flags \in {g \in AllEditFlags : ~is_ok(build_patch(g))}}

\* the flags are valid: Store::edit_todo(id, patch)
EditBuiltPatch ==
    /\ op = <<"init">>
    /\ \E now \in clock..MaxClock, id \in TodoIds, patch \in BuiltPatches :
        /\ todos' = edit_todo(todos, id, patch, now).todos
        /\ ret' = edit_todo(todos, id, patch, now).ret
        /\ clock' = now
        /\ op' = <<"edit_todo", id, patch>>
        /\ UNCHANGED <<fileVars, result>>

\* a flag's value is rejected: the command returns the error before the store
\* is called
EditRejected ==
    /\ op = <<"init">>
    /\ \E error \in BuiltErrors :
        /\ ret' = error
        /\ op' = <<"edit">>
        /\ UNCHANGED <<todos, clock, fileVars, result>>

NextCall ==
    AddTodo \/ MarkDone \/ MarkOpen \/ Delete \/ EditBuiltPatch \/ EditRejected

SpecCall == InitCall /\ [][NextCall]_vars

----------------------------------------------------------------------------
(* SpecQuery: one call of apply_list_query on a list of tasks. *)

\* a task of the list under query: plain or edited, with its due instant,
\* creation instant and status
QueryTodo(id, due, created, rich, done) ==
    LET new == Todo_new(id, TitleA, created)
        edited == IF rich
                  THEN apply_patch(new,
                          [title |-> Some(TitleB), notes |-> Some(Some(NotesN)),
                           project |-> Some(ProjectW), priority |-> Some(P1),
                           due |-> Some(due), tags |-> Some({TagX})], created)
                  ELSE apply_patch(new, [TodoPatch_default EXCEPT !.due = Some(due)],
                                   created)
    IN IF done THEN Todo_mark_done(edited, created).todo ELSE edited

QueryTodos(id) ==
    {QueryTodo(id, None, 0, FALSE, FALSE), QueryTodo(id, None, 1, TRUE, TRUE),
     QueryTodo(id, Some(0), 1, FALSE, FALSE), QueryTodo(id, Some(0), 0, TRUE, FALSE),
     QueryTodo(id, Some(1), 0, FALSE, TRUE), QueryTodo(id, Some(1), 1, TRUE, FALSE)}

\* the lists of at most MaxTodos such tasks, the n-th with id n
RECURSIVE QueryListsOfLen(_)
QueryListsOfLen(n) ==
    IF n = 0 THEN {<<>>}
    ELSE {Append(ts, t) : ts \in QueryListsOfLen(n - 1), t \in QueryTodos(n)}
QueryLists == UNION {QueryListsOfLen(n) : n \in 0..MaxTodos}

\* the filters: none, each one alone, and two together
Filters ==
    {ListQuery_default,
     [ListQuery_default EXCEPT !.status = Some("Open")],
     [ListQuery_default EXCEPT !.status = Some("Done")],
     [ListQuery_default EXCEPT !.project = Some(<<" ", "w">>)],
     [ListQuery_default EXCEPT !.tag = Some(<<"X", " ">>)],
     [ListQuery_default EXCEPT !.priority = Some(P1)],
     [ListQuery_default EXCEPT !.overdue = TRUE],
     [ListQuery_default EXCEPT !.search = Some(<<" ">>)],
     [ListQuery_default EXCEPT !.search = Some(<<" ", "N">>)],
     [ListQuery_default EXCEPT !.search = Some(<<"b">>)],
     [ListQuery_default EXCEPT !.status = Some("Open"), !.priority = Some(P1)]}

Queries ==
    {[f EXCEPT !.sort = sort, !.desc = desc] :
        f \in Filters, sort \in {"Due", "Priority", "Created"}, desc \in BOOLEAN}

\* the tasks were created at instants 0 and 1: the call is not before 1
InitQuery ==
    /\ todos \in QueryLists
    /\ clock = 1
    /\ op = <<"init">>
    /\ ret = None
    /\ pc = "idle"
    /\ file = Absent
    /\ tmp = Absent
    /\ json = None
    /\ prior = None
    /\ result = <<>>

\* the list command: apply_list_query(store.list_todos(), &q, now)
ApplyListQuery ==
    /\ op = <<"init">>
    /\ \E now \in clock..MaxClock, q \in Queries :
        /\ result' = apply_list_query(list(todos), q, now)
        /\ clock' = now
        /\ op' = <<"apply_list_query", q, now>>
        /\ UNCHANGED <<todos, ret, fileVars>>

\* the list command once more on the same tasks at the same instant, now
\* with --desc; the first call's result is kept for comparison
ApplyListQueryDesc ==
    /\ op[1] = "apply_list_query"
    /\ Len(op) = 3
    /\ ~op[2].desc
    /\ LET q == [op[2] EXCEPT !.desc = TRUE]
       IN /\ result' = apply_list_query(list(todos), q, op[3])
          /\ op' = <<"apply_list_query", q, op[3], result>>
    /\ UNCHANGED <<todos, clock, ret, fileVars>>

NextQuery == ApplyListQuery \/ ApplyListQueryDesc

SpecQuery == InitQuery /\ [][NextQuery]_vars

----------------------------------------------------------------------------
(* SpecFile: processes that open the db file with load_or_init, change the
   task list in memory, save it with save_atomic, and end or crash.  Every
   step of save_atomic that touches the file system is a step of its own and
   may fail; a crash may come between any two. *)

\* the task lists the processes hold
FileRepos ==
    {<<>>, <<PlainTodo(1)>>, <<apply_patch(PlainTodo(1), RichPatch, 0)>>,
     <<RichTodo(1)>>, <<RichTodo(2), PlainTodo(1)>>}

SaveSteps == {"write_current", "create", "write_all", "sync_all", "rename", "sync_dir"}

InitFile ==
    /\ todos = <<>>
    /\ clock = 0
    /\ op = <<"init">>
    /\ ret = None
    /\ pc = "down"
    /\ file = Absent
    /\ tmp = Absent
    /\ json = None
    /\ prior = Absent
    /\ result = <<>>

\* LoadExisting, but with a file that does not load replaced by an empty
\* document
LoadExisting_Resets ==
    /\ pc = "down"
    /\ exists(file)
    /\ op' = <<"load_or_init">>
    /\ \E readable \in BOOLEAN :
        LET loaded == load_any(read_to_string(file))
        IN IF readable /\ is_ok(loaded)
           THEN /\ todos' = loaded[2] /\ ret' = Ok(<<"repo">>) /\ pc' = "idle"
                /\ file' = file
           ELSE /\ todos' = <<>> /\ ret' = Ok(<<"repo">>) /\ pc' = "idle"
                /\ file' = File(write_current(<<>>)[2], TRUE, TRUE)
    /\ UNCHANGED <<clock, tmp, json, prior, result>>

\* load_or_init where the file exists: read it and load_any
LoadExisting ==
    /\ pc = "down"
    /\ exists(file)
    /\ op' = <<"load_or_init">>
    /\ \E readable \in BOOLEAN :
        LET loaded == load_any(read_to_string(file))
        IN IF ~readable
           THEN ret' = Err(<<"failed reading db file">>) /\ UNCHANGED <<todos, pc>>
           ELSE IF is_ok(loaded)
           THEN todos' = loaded[2] /\ ret' = Ok(<<"repo">>) /\ pc' = "idle"
           ELSE ret' = loaded /\ UNCHANGED <<todos, pc>>
    /\ UNCHANGED <<clock, file, tmp, json, prior, result>>

\* InitMissing, but with the repository returned and nothing written
InitMissing_NoSave ==
    /\ pc = "down"
    /\ ~exists(file)
    /\ op' = <<"load_or_init">>
    /\ \E created \in BOOLEAN :
        IF created
        THEN /\ todos' = <<>>
             /\ pc' = "idle"
             /\ prior' = file
             /\ json' = None
             /\ ret' = Ok(<<"repo">>)
        ELSE /\ ret' = Err(<<"failed creating db parent dir">>)
             /\ UNCHANGED <<todos, pc, prior, json>>
    /\ UNCHANGED <<clock, file, tmp, result>>

\* load_or_init where the file does not exist: create the parent directory
\* and call save_atomic on an empty repository
InitMissing ==
    /\ pc = "down"
    /\ ~exists(file)
    /\ op' = <<"load_or_init">>
    /\ \E created \in BOOLEAN :
        IF created
        THEN /\ todos' = <<>>
             /\ pc' = "write_current"
             /\ prior' = file
             /\ json' = None
             /\ ret' = None
        ELSE /\ ret' = Err(<<"failed creating db parent dir">>)
             /\ UNCHANGED <<todos, pc, prior, json>>
    /\ UNCHANGED <<clock, file, tmp, result>>

\* TodoRepository::set_all(todos) on the file repository
SetAll ==
    \E new \in FileRepos :
        /\ pc = "idle"
        /\ todos' = set_all(todos, new)
        /\ op' = <<"set_all", new>>
        /\ ret' = None
        /\ UNCHANGED <<clock, fileVars, result>>

\* the calls of the Store on its task list, each with what it leaves
StoreCalls(ts) ==
    {[op |-> <<"add_todo", id>>, todos |-> add_todo(ts, id, TitleA, clock).todos] :
        id \in TodoIds \ Ids(ts)}
    \cup {[op |-> <<"insert_todo", id>>, todos |-> insert_todo(ts, RichTodo(id))] :
        id \in TodoIds \ Ids(ts)}
    \cup {[op |-> <<"insert_many", Len(new)>>, todos |-> insert_many(ts, new)] :
        new \in {r \in FileRepos : Ids(r) \cap Ids(ts) = {}}}
    \cup {[op |-> <<"edit_todo", id>>,
           todos |-> edit_todo(ts, id, RichPatch, clock).todos] : id \in TodoIds}
    \cup {[op |-> <<"mark_done", id>>,
           todos |-> Store_mark_done(ts, id, clock).todos] : id \in TodoIds}
    \cup {[op |-> <<"mark_open", id>>,
           todos |-> Store_mark_open(ts, id, clock).todos] : id \in TodoIds}
    \cup {[op |-> <<"delete", id>>, todos |-> Store_delete(ts, id).todos] :
        id \in TodoIds}

\* a call that writes the db file as well
StoreCall_Persists ==
    /\ pc = "idle"
    /\ \E call \in StoreCalls(todos) :
        /\ call.todos \in FileRepos
        /\ todos' = call.todos
        /\ op' = call.op
        /\ ret' = None
        /\ file' = File(write_current(call.todos)[2], TRUE, TRUE)
    /\ UNCHANGED <<clock, pc, tmp, json, prior, result>>

\* a call of the Store over the file repository; the task lists are kept
\* within FileRepos
StoreCall ==
    /\ pc = "idle"
    /\ \E call \in StoreCalls(todos) :
        /\ call.todos \in FileRepos
        /\ todos' = call.todos
        /\ op' = call.op
        /\ ret' = None
    /\ UNCHANGED <<clock, fileVars, result>>

\* save_atomic is called
SaveAtomic ==
    /\ pc = "idle"
    /\ op' = <<"save_atomic">>
    /\ pc' = "write_current"
    /\ prior' = file
    /\ json' = None
    /\ ret' = None
    /\ UNCHANGED <<todos, clock, file, tmp, result>>

\* a step of save_atomic fails: the error is returned, and when load_or_init
\* made the call there is no repository
Fails(error) ==
    /\ ret' = Err(<<error>>)
    /\ pc' = IF op[1] = "load_or_init" THEN "down" ELSE "idle"
    /\ UNCHANGED <<todos, clock, op, file, json, prior, result>>

\* db_schema::write_current(&self.todos)?
WriteCurrent ==
    /\ pc = "write_current"
    /\ \/ /\ json' = Some(write_current(todos)[2])
          /\ pc' = "create"
          /\ UNCHANGED <<todos, clock, op, ret, file, tmp, prior, result>>
       \/ Fails("failed serializing db JSON") /\ UNCHANGED tmp

\* Create, but with a temp file that exists opened as it is
Create_KeepsStale ==
    /\ pc = "create"
    /\ \/ /\ tmp' = IF exists(tmp) THEN tmp ELSE File_create(json[1])
          /\ pc' = "write_all"
          /\ UNCHANGED <<todos, clock, op, ret, file, json, prior, result>>
       \/ Fails("failed writing temp db file") /\ UNCHANGED tmp

\* File::create(path)? of write_file_and_sync
Create ==
    /\ pc = "create"
    /\ \/ /\ tmp' = File_create(json[1])
          /\ pc' = "write_all"
          /\ UNCHANGED <<todos, clock, op, ret, file, json, prior, result>>
       \/ Fails("failed writing temp db file") /\ UNCHANGED tmp

\* f.write_all(bytes)?: a failed write leaves the file cut short
WriteAll ==
    /\ pc = "write_all"
    /\ \/ /\ tmp' = write_all(tmp, json[1])
          /\ pc' = "sync_all"
          /\ UNCHANGED <<todos, clock, op, ret, file, json, prior, result>>
       \/ Fails("failed writing temp db file") /\ UNCHANGED tmp

\* f.sync_all()?
SyncAll ==
    /\ pc = "sync_all"
    /\ \/ /\ tmp' = sync_all(tmp)
          /\ pc' = "rename"
          /\ UNCHANGED <<todos, clock, op, ret, file, json, prior, result>>
       \/ Fails("failed writing temp db file") /\ UNCHANGED tmp

\* std::fs::rename(&tmp_path, &self.path)?
Rename ==
    /\ pc = "rename"
    /\ \/ /\ file' = tmp
          /\ tmp' = Absent
          /\ pc' = "sync_dir"
          /\ UNCHANGED <<todos, clock, op, ret, json, prior, result>>
       \/ Fails("failed remaining temp db file") /\ UNCHANGED tmp

\* let _ = sync_dir_best_effort(parent); Ok(()), and load_or_init returns
\* the repository
SyncDir ==
    /\ pc = "sync_dir"
    /\ ret' = IF op[1] = "load_or_init" THEN Ok(<<"repo">>) ELSE Ok(<<"unit">>)
    /\ pc' = "idle"
    /\ UNCHANGED <<todos, clock, op, file, tmp, json, prior, result>>

\* the process ends or the machine crashes: the task list in memory is gone,
\* files hold what had reached the disk, and a rename whose directory was not
\* yet synced may be undone
Crash ==
    /\ pc # "down"
    /\ pc' = "down"
    /\ todos' = <<>>
    /\ op' = <<"crash">>
    /\ ret' = None
    /\ \/ file' \in after_crash(file) /\ tmp' \in after_crash(tmp)
       \/ /\ pc = "sync_dir"
          /\ file' = prior
          /\ tmp' \in after_crash(file)
    /\ UNCHANGED <<clock, json, prior, result>>

NextFile ==
    \/ LoadExisting
    \/ InitMissing
    \/ SetAll
    \/ StoreCall
    \/ SaveAtomic
    \/ WriteCurrent
    \/ Create
    \/ WriteAll
    \/ SyncAll
    \/ Rename
    \/ SyncDir
    \/ Crash

SpecFile == InitFile /\ [][NextFile]_vars

----------------------------------------------------------------------------
(* SpecSchema: load_or_init of a db file that holds any document. *)

\* what the schema_version field of a document may hold
SchemaVersions ==
    {<<"absent">>, <<"string">>, <<"negative">>, <<"float">>}
        \cup {<<"u64", <<a, b, c, d>>>> : a, b, c, d \in {0, 1, 65535}}

\* the task lists of the documents: none, one task, one task that does not
\* decode
SchemaTodos ==
    {<<>>, <<encode_todo(PlainTodo(1))>>,
     <<[encode_todo(PlainTodo(1)) EXCEPT !.created_at = <<"x">>]>>}

SchemaTexts ==
    {to_string_pretty([schema_version |-> sv, todos |-> ts]) :
        sv \in SchemaVersions, ts \in SchemaTodos} \cup {<<"not json">>}

InitSchema ==
    /\ todos = <<>>
    /\ clock = 0
    /\ op = <<"init">>
    /\ ret = None
    /\ pc = "down"
    /\ file \in {File(text, TRUE, TRUE) : text \in SchemaTexts}
    /\ tmp = Absent
    /\ json = None
    /\ prior = Absent
    /\ result = <<>>

NextSchema == LoadExisting

SpecSchema == InitSchema /\ [][NextSchema]_vars

----------------------------------------------------------------------------
(* SpecCopy: a caller takes the tasks of a repository with list or get and
   then changes what it was handed. *)

InitCopy ==
    /\ todos \in SampleRepos
    /\ clock = 0
    /\ op = <<"init">>
    /\ ret = None
    /\ pc = "idle"
    /\ file = Absent
    /\ tmp = Absent
    /\ json = None
    /\ prior = None
    /\ result = returned(<<>>, "list")

\* let items = repo.list()
ListTodos ==
    /\ op = <<"init">>
    /\ result' = returned(list(todos), "list")
    /\ op' = <<"list">>
    /\ UNCHANGED <<todos, clock, ret, fileVars>>

\* let item = repo.get(id)
GetTodo ==
    /\ op = <<"init">>
    /\ \E id \in TodoIds :
        /\ result' = returned(get(todos, id), "get")
        /\ op' = <<"get", id>>
        /\ UNCHANGED <<todos, clock, ret, fileVars>>

\* the caller calls mark_done on a task it was handed, or assigns a field
MutateReturned ==
    /\ op[1] \in {"list", "get"}
    /\ \E k \in 1..Len(result.items), now \in clock..MaxClock, marks \in BOOLEAN :
        LET item == result.items[k]
            new == IF marks THEN Todo_mark_done(item, now).todo
                   ELSE [item EXCEPT !.priority = P4]
        IN /\ result' = [result EXCEPT !.items[k] = new]
           /\ todos' = write_back(todos, result')
           /\ clock' = now
           /\ op' = <<"mutate", k, marks>>
           /\ UNCHANGED <<ret, fileVars>>

\* the caller hands the list it was handed to apply_list_query
QueryReturned ==
    /\ op = <<"list">>
    /\ \E now \in clock..MaxClock, q \in Queries :
        /\ result' = [result EXCEPT !.items = apply_list_query(result.items, q, now)]
        /\ todos' = write_back(todos, result')
        /\ clock' = now
        /\ op' = <<"query", q, now>>
        /\ UNCHANGED <<ret, fileVars>>

NextCopy == ListTodos \/ GetTodo \/ MutateReturned \/ QueryReturned

SpecCopy == InitCopy /\ [][NextCopy]_vars

----------------------------------------------------------------------------
(* SpecResolve: one call of resolve_id_input on a collection of tasks. *)

\* the tasks with identifiers 1..ResolveTodos, titled A and B in turn
ResolveTodo(id) == Todo_new(id, IF id % 2 = 1 THEN TitleA ELSE TitleB, 0)
ResolveAll == [id \in 1..ResolveTodos |-> ResolveTodo(id)]

\* every run of consecutive tasks, in ascending and in descending order
ResolveLists ==
    {SubSeq(ResolveAll, i, j) : i \in 1..(ResolveTodos + 1), j \in 0..ResolveTodos}
    \cup {reverse(SubSeq(ResolveAll, i, j)) : i \in 1..3, j \in 0..3}

\* what the user types: nothing, two characters of two bytes each, prefixes
\* of 3, 4, 5, 8 and 9 characters, a prefix
\* no task has, a prefix in upper case, inputs with blanks around them, and
\* full identifiers of a task and of no task
ResolveInputs ==
    {<<>>,
     <<"e-acute", "e-acute">>,
     <<"a", "a", "a">>,
     <<"a", "a", "a", "a">>,
     <<"a", "a", "a", "a", "0">>,
     short(1),
     short(2),
     SubSeq(as_uuid_str(2), 1, 9),
     SubSeq(as_uuid_str(3), 1, 35),
     <<"b", "b", "b", "b">>,
     <<"A", "A", "A", "A">>,
     <<" ">> \o short(2) \o <<" ">>,
     <<" ", "a", "a", "a", " ">>,
     as_uuid_str(2),
     <<" ">> \o as_uuid_str(1),
     as_uuid_str(ResolveTodos + 1)}

InitResolve ==
    /\ todos \in ResolveLists
    /\ clock = 0
    /\ op = <<"init">>
    /\ ret = None
    /\ pc = "idle"
    /\ file = Absent
    /\ tmp = Absent
    /\ json = None
    /\ prior = None
    /\ result = <<>>

\* resolve_id_input(&store.list_todos(), &id)
ResolveIdInput ==
    /\ op = <<"init">>
    /\ \E input \in ResolveInputs :
        /\ ret' = resolve_id_input(list(todos), input)
        /\ op' = <<"resolve_id_input", input>>
        /\ UNCHANGED <<todos, clock, fileVars, result>>

\* the commands that take an identifier, with flags that are accepted and
\* flags that are not
ResolveCommands ==
    {[name |-> n, id |-> input] : n \in {"show", "done", "undone"}, input \in ResolveInputs}
    \cup {[name |-> "delete", id |-> input, yes |-> y] :
             input \in ResolveInputs, y \in BOOLEAN}
    \cup {[name |-> "edit", id |-> input, flags |-> f] :
             input \in ResolveInputs,
             f \in {g \in AllEditFlags :
                      /\ g.title \in {Some(<<" ", "B">>), Some(<<" ">>)}
                      /\ g.notes = None /\ g.project = None /\ g.priority = None
                      /\ g.due = None /\ g.tags = <<>>
                      /\ ~g.clear_notes /\ ~g.clear_due /\ ~g.clear_tags}}

\* handle_command on a store that holds the tasks
HandleIdCommand ==
    /\ op = <<"init">>
    /\ \E cmd \in ResolveCommands :
        LET outcome == handle_command(todos, cmd, clock, 0)
        IN /\ todos' = outcome.todos
           /\ ret' = outcome.res
           /\ result' = <<outcome>>
           /\ op' = <<"handle_command", cmd>>
           /\ UNCHANGED <<clock, fileVars>>

NextResolve == ResolveIdInput \/ HandleIdCommand

SpecResolve == InitResolve /\ [][NextResolve]_vars

----------------------------------------------------------------------------
(* SpecRace: two processes, each with its own task list, run save_atomic on
   the same target path.  Both derive the same temp path from it
   (tmp_path_for), so a path names an inode and the processes hold file
   handles: `result` is the table of inodes with what each holds, `file` and
   `tmp` say which inode the target and the temp path name, and `prior` holds
   each process's open handle.  todos, pc, json and ret hold one value per
   process. *)

Procs == {1, 2}
Inode(k) == <<"inode", k>>
Empty == <<"empty">>
\* bytes of two documents, the later written over the earlier
Mixed(later, earlier) == <<"mixed", later, earlier>>

\* the db file before the saves: missing, or the document of a task list
RaceStarts == {<<>>} \cup {<<write_current(ts)[2]>> : ts \in {<<>>, <<PlainTodo(1)>>}}

InitRace ==
    /\ todos \in {<<a, b>> : a \in FileRepos, b \in FileRepos}
    /\ clock = 0
    /\ op = <<"init">>
    /\ ret = <<None, None>>
    /\ pc = <<"write_current", "write_current">>
    /\ result \in RaceStarts
    /\ file = IF result = <<>> THEN Absent ELSE Inode(1)
    /\ tmp = Absent
    /\ json = <<None, None>>
    /\ prior = <<None, None>>

\* db_schema::write_current(&self.todos)? in process p
RaceWriteCurrent(p) ==
    /\ pc[p] = "write_current"
    /\ json' = [json EXCEPT ![p] = Some(write_current(todos[p])[2])]
    /\ pc' = [pc EXCEPT ![p] = "create"]
    /\ op' = <<"write_current", p>>
    /\ UNCHANGED <<todos, clock, ret, file, tmp, prior, result>>

\* File::create(tmp_path) in process p: a new inode if the path names none,
\* else the inode it names, truncated; p holds a handle at offset 0
RaceCreate(p) ==
    /\ pc[p] = "create"
    /\ IF tmp = Absent
       THEN /\ result' = Append(result, Empty)
            /\ tmp' = Inode(Len(result) + 1)
       ELSE /\ result' = [result EXCEPT ![tmp[2]] = Empty]
            /\ tmp' = tmp
    /\ prior' = [prior EXCEPT ![p] = Some(tmp'[2])]
    /\ pc' = [pc EXCEPT ![p] = "write_all"]
    /\ op' = <<"create", p>>
    /\ UNCHANGED <<todos, clock, ret, file, json>>

\* f.write_all(bytes) in process p, through its handle: onto an empty inode
\* the bytes are the document; onto another document they replace its
\* beginning, which leaves the new document if that is no shorter and a mix of
\* the two otherwise
RaceWriteAll(p) ==
    /\ pc[p] = "write_all"
    /\ LET k == prior[p][1]
           held == result[k]
           doc == json[p][1]
       IN \E written \in IF held \in {Empty, doc} THEN {doc}
                         ELSE {doc, Mixed(doc, held)} :
            result' = [result EXCEPT ![k] = written]
    /\ pc' = [pc EXCEPT ![p] = "sync_all"]
    /\ op' = <<"write_all", p>>
    /\ UNCHANGED <<todos, clock, ret, file, tmp, json, prior>>

\* f.sync_all() in process p
RaceSyncAll(p) ==
    /\ pc[p] = "sync_all"
    /\ pc' = [pc EXCEPT ![p] = "rename"]
    /\ op' = <<"sync_all", p>>
    /\ UNCHANGED <<todos, clock, ret, file, tmp, json, prior, result>>

\* std::fs::rename(&tmp_path, &self.path)? in process p: the target names the
\* inode the temp path named; with no file at the temp path it fails
RaceRename(p) ==
    /\ pc[p] = "rename"
    /\ op' = <<"rename", p>>
    /\ IF tmp = Absent
       THEN /\ ret' = [ret EXCEPT ![p] = Err(<<"failed remaining temp db file">>)]
            /\ pc' = [pc EXCEPT ![p] = "failed"]
            /\ UNCHANGED <<file, tmp>>
       ELSE /\ file' = tmp
            /\ tmp' = Absent
            /\ pc' = [pc EXCEPT ![p] = "sync_dir"]
            /\ ret' = ret
    /\ UNCHANGED <<todos, clock, json, prior, result>>

\* let _ = sync_dir_best_effort(parent); Ok(()) in process p
RaceSyncDir(p) ==
    /\ pc[p] = "sync_dir"
    /\ ret' = [ret EXCEPT ![p] = Ok(<<"unit">>)]
    /\ pc' = [pc EXCEPT ![p] = "done"]
    /\ op' = <<"sync_dir", p>>
    /\ UNCHANGED <<todos, clock, file, tmp, json, prior, result>>

NextRace ==
    \E p \in Procs :
        \/ RaceWriteCurrent(p)
        \/ RaceCreate(p)
        \/ RaceWriteAll(p)
        \/ RaceSyncAll(p)
        \/ RaceRename(p)
        \/ RaceSyncDir(p)

SpecRace == InitRace /\ [][NextRace]_vars

----------------------------------------------------------------------------
(* SpecNotes: one call of Notes::parse. *)

\* the lengths on both sides of 10,000 bytes and of 10,000 characters
NotesLengths == {0, 1, 4999, 5000, 5001, 9999, 10000, 10001}

\* a character of one byte or of two, repeated, with or without white space
\* around it
NotesInputs ==
    {lead \o [i \in 1..n |-> c] \o trail :
        c \in {"a", "n", "e-acute"}, n \in NotesLengths,
        lead \in {<<>>, <<" ">>}, trail \in {<<>>, <<" ">>, <<"\t">>}}

NotesParse ==
    /\ op = <<"init">>
    /\ \E input \in NotesInputs :
        /\ ret' = Notes_parse(input)
        /\ op' = <<"Notes::parse", input>>
        /\ UNCHANGED <<todos, clock, fileVars, result>>

NextNotes == NotesParse

SpecNotes == Init /\ [][NextNotes]_vars

----------------------------------------------------------------------------
(* Claims about the Todo entity, checked under SpecTodo *)

\* C5: the status machine has exactly two transitions.  mark_done succeeds
\* iff the status is Open and then sets Done{now} and updated_at = now;
\* mark_open succeeds iff the status is Done and then sets Open and
\* updated_at = now; mark_done on Done returns AlreadyDone, mark_open on Open
\* returns AlreadyOpen, and a failed call leaves every field as it was; no
\* other call changes the status.
C5_StatusMachine ==
    [][/\ op' = <<"Todo::mark_done">> =>
            IF todos[1].status = Open
            THEN /\ ret' = "Ok"
                 /\ todos'[1] = [todos[1] EXCEPT !.status = Done(clock'),
                                                 !.updated_at = clock']
            ELSE /\ ret' = "AlreadyDone"
                 /\ todos' = todos
       /\ op' = <<"Todo::mark_open">> =>
            IF is_done(todos[1].status)
            THEN /\ ret' = "Ok"
                 /\ todos'[1] = [todos[1] EXCEPT !.status = Open,
                                                 !.updated_at = clock']
            ELSE /\ ret' = "AlreadyOpen"
                 /\ todos' = todos
       /\ (todos # <<>> /\ todos'[1].status # todos[1].status) =>
            /\ op' \in {<<"Todo::mark_done">>, <<"Todo::mark_open">>}
            /\ ret' = "Ok"
      ]_vars

\* a second mark_done, made at a later instant, was refused and the
\* completion instant is still the first one
C5_Witness ==
    /\ op = <<"Todo::mark_done">>
    /\ ret = "AlreadyDone"
    /\ clock = 1
    /\ todos[1].status = Done(0)

----------------------------------------------------------------------------
(* Claims about the orchestration layer, checked under SpecCall, and about
   the repository port, checked under Spec *)

\* the positions of the stored tasks with this id
At(ts, id) == {i \in 1..Len(ts) : ts[i].id = id}

\* the step changed the task at position i to `new` and nothing else
OnlyChanged(i, new) ==
    /\ Len(todos') = Len(todos)
    /\ todos'[i] = new
    /\ \A j \in 1..Len(todos) : j # i => todos'[j] = todos[j]

\* C6: Store::mark_done(id) and Store::mark_open(id) return TodoNotFound iff
\* no stored task has the id, AlreadyDone (AlreadyOpen) iff the stored task
\* with the id is already in the target status, and Ok otherwise; on Ok that
\* task has the new status and every other stored task is unchanged; on
\* either error the repository is unchanged.
C6_MarkOutcomes ==
    [][\A id \in TodoIds :
        /\ op' = <<"mark_done", id>> =>
             /\ ret' = Err("TodoNotFound") <=> At(todos, id) = {}
             /\ ret' = Err("AlreadyDone") <=>
                    \E i \in At(todos, id) : is_done(todos[i].status)
             /\ ret' \in {Ok("unit"), Err("TodoNotFound"), Err("AlreadyDone")}
             /\ ret' = Ok("unit") =>
                    \E i \in At(todos, id) :
                        /\ todos'[i].status = Done(clock')
                        /\ OnlyChanged(i, [todos[i] EXCEPT !.status = Done(clock'),
                                                           !.updated_at = clock'])
             /\ ret' # Ok("unit") => todos' = todos
        /\ op' = <<"mark_open", id>> =>
             /\ ret' = Err("TodoNotFound") <=> At(todos, id) = {}
             /\ ret' = Err("AlreadyOpen") <=>
                    \E i \in At(todos, id) : todos[i].status = Open
             /\ ret' \in {Ok("unit"), Err("TodoNotFound"), Err("AlreadyOpen")}
             /\ ret' = Ok("unit") =>
                    \E i \in At(todos, id) :
                        /\ todos'[i].status = Open
                        /\ OnlyChanged(i, [todos[i] EXCEPT !.status = Open,
                                                           !.updated_at = clock'])
             /\ ret' # Ok("unit") => todos' = todos
      ]_vars

\* mark_done of the second of two stored open tasks succeeded and left the
\* first open
C6_Witness ==
    /\ op[1] = "mark_done"
    /\ ret = Ok("unit")
    /\ Len(todos) = 2
    /\ todos[2].id = op[2]
    /\ todos[2].status = Done(1)
    /\ todos[1].status = Open

\* C8: edit_todo of an id no stored task has returns false (not found) and
\* leaves the repository unchanged; edit_todo of a stored id returns true
\* and the stored task is overwritten in place by the patched one.
C8_EditOutcomes ==
    [][op'[1] = "edit_todo" =>
        LET id == op'[2]
            patch == op'[3]
        IN IF At(todos, id) = {}
           THEN ret' = Ok(FALSE) /\ todos' = todos
           ELSE /\ ret' = Ok(TRUE)
                /\ \E i \in At(todos, id) :
                      OnlyChanged(i, apply_patch(todos[i], patch, clock'))
      ]_vars

\* the second of two stored tasks was edited
C8_Witness ==
    /\ op[1] = "edit_todo"
    /\ ret = Ok(TRUE)
    /\ Len(todos) = 2
    /\ todos[2].id = op[2]
    /\ todos[2].title = TitleB
    /\ todos[1].title = TitleA

\* C10: replace(todo) returns true iff a stored task has the same id; then
\* that task is overwritten at its position, the number and order of tasks
\* are unchanged and get(todo.id) returns the new task; when it returns
\* false the repository is unchanged.
C10_Replace ==
    [][op'[1] = "replace" =>
        LET todo == op'[2]
        IN /\ ret' = TRUE <=> At(todos, todo.id) # {}
           /\ ret' = TRUE =>
                /\ \E i \in At(todos, todo.id) : OnlyChanged(i, todo)
                /\ [j \in 1..Len(todos') |-> todos'[j].id] =
                       [j \in 1..Len(todos) |-> todos[j].id]
                /\ get(todos', todo.id) = Some(todo)
           /\ ret' = FALSE => todos' = todos
      ]_vars

\* the second of two stored tasks was replaced
C10_Witness ==
    /\ op[1] = "replace"
    /\ ret = TRUE
    /\ Len(todos) = 2
    /\ todos[2] = op[2]
    /\ todos[1].title = TitleA

----------------------------------------------------------------------------
(* Claims about patches, checked under SpecCall *)

\* C9: an applied patch changes exactly the fields it holds as Set or Clear,
\* and updated_at: Set stores the value, Clear removes the optional field, an
\* Unchanged field and the id, status and created_at keep their values.
C9_PatchFrame ==
    [][(op'[1] = "edit_todo" /\ ret' = Ok(TRUE)) =>
        LET patch == op'[3]
        IN \E i \in At(todos, op'[2]) :
            /\ \A f \in PatchFields :
                 IF IsUnchanged(patch, f) THEN todos'[i][f] = todos[i][f]
                 ELSE IF f \in OptionalFields
                 THEN IF IsClear(patch, f) THEN todos'[i][f] = None
                      ELSE todos'[i][f] = Some(patch[f][1][1])
                 ELSE todos'[i][f] = patch[f][1]
            /\ todos'[i].id = todos[i].id
            /\ todos'[i].status = todos[i].status
            /\ todos'[i].created_at = todos[i].created_at
            /\ todos'[i].updated_at = clock'
      ]_vars

\* a patch that sets the title, clears the notes and leaves the rest alone
\* was applied to a task that had notes, a project and a tag
C9_Witness ==
    /\ op[1] = "edit_todo"
    /\ ret = Ok(TRUE)
    /\ op[3] = [TodoPatch_default EXCEPT !.title = Some(TitleB), !.notes = Some(None)]
    /\ Len(todos) = 2
    /\ todos[2].id = op[2]
    /\ todos[2].notes = None
    /\ todos[2].tags = {TagX}
    /\ is_done(todos[2].status)
    /\ todos[2].updated_at = 1

----------------------------------------------------------------------------
(* Claims about the query engine, checked under SpecQuery *)

\* C3: with sort key Due and desc = false, every task of the result that has
\* a due instant comes before every task that has none, and the tasks that
\* have a due instant are in ascending order of it.
C3_DueAscendingUndatedLast ==
    (op[1] = "apply_list_query" /\ op[2].sort = "Due" /\ ~op[2].desc) =>
        \A i, j \in 1..Len(result) :
            i < j =>
                /\ result[i].due = None => result[j].due = None
                /\ (result[i].due # None /\ result[j].due # None) =>
                       result[i].due[1] <= result[j].due[1]

\* C19: is_overdue(now) is true iff the task is Open, has a due instant, and
\* that instant is strictly earlier than now; it is false for every Done
\* task, for every task with no due instant, and when due equals now.
C19_Overdue ==
    op[1] = "Todo::is_overdue" =>
        LET t == todos[1]
            now == op[2]
        IN /\ result[1] <=> (t.status[1] = "Open" /\ t.due # None /\ t.due[1] < now)
           /\ t.status[1] = "Done" => ~result[1]
           /\ t.due = None => ~result[1]
           /\ (t.due # None /\ t.due[1] = now) => ~result[1]

\* an open task was found overdue
C19_Witness ==
    /\ op[1] = "Todo::is_overdue"
    /\ result = <<TRUE>>
    /\ todos[1].due = Some(1)
    /\ op[2] = 2

\* task t passes every filter of q that is active, the search filter
\* matching the given needle
Satisfies(t, q, now, needle) ==
    /\ q.status = Some("Open") => t.status[1] # "Done"
    /\ q.status = Some("Done") => t.status[1] = "Done"
    /\ q.project # None =>
           to_ascii_lowercase(t.project) = to_ascii_lowercase(trim(q.project[1]))
    /\ q.tag # None => to_ascii_lowercase(trim(q.tag[1])) \in t.tags
    /\ q.priority # None => t.priority = q.priority[1]
    /\ q.overdue =>
           t.status[1] = "Open" /\ t.due # None /\ t.due[1] < now
    /\ (q.search # None /\ trim(q.search[1]) # <<>>) =>
           \/ contains(to_ascii_lowercase(t.title), to_ascii_lowercase(needle))
           \/ t.notes # None /\
                  contains(to_ascii_lowercase(t.notes[1]), to_ascii_lowercase(needle))

\* the result holds the input tasks that pass, each once and as it was
ExactlyTheSatisfying(needle) ==
    LET q == op[2]
        now == op[3]
        passing == {i \in 1..Len(todos) : Satisfies(todos[i], q, now, needle)}
    IN /\ Len(result) = Cardinality(passing)
       /\ \A i \in passing : \E k \in 1..Len(result) : result[k] = todos[i]
       /\ \A k \in 1..Len(result) : \E i \in passing : result[k] = todos[i]

C16_NonDecreasing ==
    (op[1] = "apply_list_query" /\ ~op[2].desc) =>
        \A i, j \in 1..Len(result) :
            i < j =>
                /\ op[2].sort = "Priority" => result[i].priority <= result[j].priority
                /\ op[2].sort = "Created" =>
                       result[i].created_at <= result[j].created_at
                /\ (op[2].sort = "Due" /\ result[i].due # None /\ result[j].due # None)
                       => result[i].due[1] <= result[j].due[1]

\* an ascending sort by priority moved the second task before the first
C16_Witness ==
    /\ op[1] = "apply_list_query"
    /\ op[2].sort = "Priority"
    /\ ~op[2].desc
    /\ Len(result) = 2
    /\ todos[1].priority > todos[2].priority
    /\ result[1].priority < result[2].priority

\* two tasks are equal under the sort key
SameKey(a, b, sort) ==
    IF sort = "Due" THEN a.due = b.due
    ELSE IF sort = "Priority" THEN a.priority = b.priority
    ELSE a.created_at = b.created_at

\* the input position of a task of the result; ids are distinct in the input
InputIndex(t) == CHOOSE i \in 1..Len(todos) : todos[i].id = t.id

\* C17 as stated: any two tasks of the result of apply_list_query that are
\* equal under the chosen sort key appear in the same relative order as in
\* the input list.
C17_Stable_AnyDirection ==
    op[1] = "apply_list_query" =>
        \A i, j \in 1..Len(result) :
            (i < j /\ SameKey(result[i], result[j], op[2].sort)) =>
                InputIndex(result[i]) < InputIndex(result[j])

\* C17, amended: with desc = false, any two tasks of the result that are
\* equal under the chosen sort key appear in the same relative order as in
\* the input list; with desc = true they appear in the opposite order.
C17_Stable ==
    op[1] = "apply_list_query" =>
        \A i, j \in 1..Len(result) :
            (i < j /\ SameKey(result[i], result[j], op[2].sort)) =>
                IF op[2].desc
                THEN InputIndex(result[i]) > InputIndex(result[j])
                ELSE InputIndex(result[i]) < InputIndex(result[j])

\* two tasks with the same priority but different due instants were sorted
\* by priority, descending
C17_Witness ==
    /\ op[1] = "apply_list_query"
    /\ op[2].sort = "Priority"
    /\ op[2].desc
    /\ Len(result) = 2
    /\ result[1].priority = result[2].priority
    /\ result[1].due # result[2].due

\* C18: for the same list, the same now and otherwise the same query,
\* apply_list_query with desc = true returns exactly the sequence it returns
\* with desc = false read backwards, the tasks without a due instant moving
\* to the other end with everything else.
C18_DescIsReverse ==
    (op[1] = "apply_list_query" /\ Len(op) = 4) =>
        /\ Len(result) = Len(op[4])
        /\ \A i \in 1..Len(result) : result[i] = op[4][Len(result) + 1 - i]

\* a second call, by due descending, returned a dated task before an
\* undated one
C18_Witness ==
    /\ op[1] = "apply_list_query"
    /\ Len(op) = 4
    /\ op[2].sort = "Due"
    /\ op[2].desc
    /\ Len(result) = 2
    /\ result[1].due # None
    /\ result[2].due = None
    /\ op[4][1].due = None

----------------------------------------------------------------------------
(* Claims about the file store, checked under SpecFile and SpecSchema *)

C14_NoImplicitPersist ==
    [][/\ op'[1] \in {"add_todo", "insert_todo", "insert_many", "edit_todo",
                      "mark_done", "mark_open", "delete", "set_all"} =>
            file' = file /\ tmp' = tmp
       /\ file' # file => pc \in SaveSteps
      ]_vars

\* a stored task was completed in memory while the db file, saved earlier,
\* still holds another list
C14_Witness ==
    /\ op[1] = "mark_done"
    /\ pc = "idle"
    /\ todos # <<>>
    /\ is_done(todos[1].status)
    /\ exists(file)
    /\ Contents(file) # <<write_current(todos)[2], TRUE>>

\* C4: loading a document whose schema_version is anything but 1 (any other
\* unsigned 64-bit number, or absent, or not an unsigned integer) fails with
\* the unsupported-schema-version error and yields no task list; only the
\* value 1 is decoded as version 1.
C4_OnlyVersionOne ==
    (/\ op = <<"load_or_init">>
     /\ exists(file)
     /\ is_ok(from_str(read_to_string(file)))
     /\ ret # Err(<<"failed reading db file">>)) =>
        LET field == file[2][2].schema_version
        IN IF field = <<"u64", U64(1)>>
           THEN ret \in {Ok(<<"repo">>), Err(<<"failed decoding schema v1 db">>)}
           ELSE /\ ret[1] = "Err"
                /\ ret[2][1] = "unsupported schema_version"
                /\ pc = "down"
                /\ todos = <<>>


----------------------------------------------------------------------------
(* Claims about the identifier resolver, checked under SpecResolve *)

\* the positions of the tasks that match the text s
Matching(s) ==
    {i \in 1..Len(todos) :
        \/ SubSeq(as_uuid_str(todos[i].id), 1, 8) = s
        \/ /\ Len(s) <= 36
           /\ SubSeq(as_uuid_str(todos[i].id), 1, Len(s)) = s}

\* for a text s that is not a full identifier and has at least 4 characters:
\* NotFound with s, the one matching id, or Ambiguous with the first 10
\* matches, and never the id of a task that does not match
ResolvedBy(s) ==
    (parse_uuid(s)[1] # "Ok" /\ Len(s) >= 4) =>
        LET M == Matching(s)
            n == Cardinality(M)
            Ord(i) == Cardinality({j \in M : j <= i})
        IN /\ n = 0 => (ret[1] = "Err" /\ ret[2] = <<"no todo found matching id", s>>)
           /\ n = 1 => (ret[1] = "Ok" /\ \A i \in M : ret[2] = todos[i].id)
           /\ n > 1 =>
                 /\ ret[1] = "Err"
                 /\ ret[2][1] = "ambiguous id"
                 /\ Len(ret[2][3]) = (IF n < 10 THEN n ELSE 10)
                 /\ \A i \in M :
                        Ord(i) <= 10 =>
                            ret[2][3][Ord(i)] =
                                <<SubSeq(as_uuid_str(todos[i].id), 1, 8), todos[i].title>>
           /\ ret[1] = "Ok" => \E i \in M : ret[2] = todos[i].id

\* C20 as stated: the input as typed is what is measured, matched and
\* echoed.
C20_Resolve_AsTyped ==
    op[1] = "resolve_id_input" => ResolvedBy(op[2])

\* C20, amended: for an input that, with the white space around it removed,
\* is not a full canonical identifier and has at least 4 characters, the
\* resolver collects every task whose short form equals the trimmed input or
\* whose canonical form starts with it: with none it fails with NotFound
\* echoing the trimmed input, with one it returns that task's id, with more
\* it fails with Ambiguous listing min(number of matches, 10) candidates as
\* (short id, title) pairs in collection order; it never returns the id of a
\* task that does not match.
C20_Resolve ==
    op[1] = "resolve_id_input" => ResolvedBy(trim(op[2]))

\* eleven tasks matched a four-character prefix and ten were listed
C20_Witness ==
    /\ op = <<"resolve_id_input", <<"a", "a", "a", "a">>>>
    /\ Len(todos) = 11
    /\ ret[1] = "Err"
    /\ ret[2][1] = "ambiguous id"
    /\ Len(ret[2][3]) = 10


\* C21: an input that parses as a full canonical identifier is resolved to
\* that identifier, whatever the collection holds; when no task owns it, show,
\* edit, done, undone and delete (edit with flags that are accepted, delete
\* with --yes) report that the task was not found, change no task and do not
\* save.
C21_FullIdDirect ==
    /\ [](op[1] = "resolve_id_input" =>
            \A id \in UuidIds : as_uuid_str(id) = op[2] => ret = <<"Ok", id>>)
    /\ [][(/\ op'[1] = "handle_command"
           /\ \E id \in UuidIds \ {todos[i].id : i \in 1..Len(todos)} :
                  as_uuid_str(id) = op'[2].id
           /\ op'[2].name = "edit" => build_patch(op'[2].flags)[1] = "Ok"
           /\ op'[2].name = "delete" => op'[2].yes)
          => /\ result'[1].out \in {<<"todo not found">>, <<"Failed to edit">>}
             /\ result'[1].out = <<"Failed to edit">> <=> op'[2].name = "edit"
             /\ ~result'[1].save
             /\ todos' = todos]_vars

\* `done` with the full identifier of no task, on a collection of three
C21_Witness ==
    /\ op[1] = "handle_command"
    /\ op[2].name = "done"
    /\ op[2].id = as_uuid_str(ResolveTodos + 1)
    /\ Len(todos) = 3
    /\ result[1].out = <<"todo not found">>


\* C22: an input shorter than 4 characters, which is never a full canonical
\* identifier, fails resolution whatever the collection holds, also when a
\* task's canonical form starts with it.
C22_ShortInputFails ==
    (op[1] = "resolve_id_input" /\ Len(op[2]) < 4) =>
        ret[1] = "Err"

\* three characters that begin the canonical form of the only task
C22_Witness ==
    /\ op = <<"resolve_id_input", <<"a", "a", "a">>>>
    /\ Len(todos) = 1
    /\ SubSeq(as_uuid_str(todos[1].id), 1, 3) = op[2]
    /\ ret[1] = "Err"


----------------------------------------------------------------------------
(* More claims about the file store, checked under SpecFile *)

\* the document of an empty repository at schema version 1
EmptyDocument ==
    <<"json", [schema_version |-> <<"u64", <<0, 0, 0, 1>>>>, todos |-> <<>>]>>

\* C23: load_or_init on a path with no file creates the parent directory and
\* runs save_atomic on an empty repository; when the save ends, the path
\* holds the empty version-1 document and the repository returned is empty;
\* if creating the directory or a step of the save fails, the call returns an
\* error and no repository; and a load_or_init that reads the empty document
\* returns an empty repository.
C23_InitMissing ==
    [][/\ (pc = "down" /\ ~exists(file) /\ op'[1] = "load_or_init") =>
            \/ pc' = "write_current" /\ todos' = <<>> /\ file' = file
            \/ pc' = "down" /\ ret'[1] = "Err" /\ file' = file
       /\ (op[1] = "load_or_init" /\ pc \in SaveSteps /\ op' = op) =>
            \/ pc' \in SaveSteps /\ todos' = <<>>
            \/ pc # "sync_dir" /\ pc' = "down" /\ ret'[1] = "Err"
            \/ /\ pc = "sync_dir"
               /\ pc' = "idle"
               /\ ret' = <<"Ok", <<"repo">>>>
               /\ todos' = <<>>
               /\ Contents(file') = <<EmptyDocument, TRUE>>
       /\ (/\ pc = "down"
           /\ op'[1] = "load_or_init"
           /\ Contents(file) = <<EmptyDocument, TRUE>>
           /\ ret' # <<"Err", <<"failed reading db file">>>>) =>
            ret' = <<"Ok", <<"repo">>>> /\ todos' = <<>> /\ pc' = "idle"
      ]_vars

\* load_or_init found no file and returned a repository
C23_Witness ==
    /\ op = <<"load_or_init">>
    /\ pc = "idle"
    /\ prior = Absent
    /\ ret = <<"Ok", <<"repo">>>>
    /\ Contents(file) = <<EmptyDocument, TRUE>>


----------------------------------------------------------------------------
(* A claim about Notes::parse, checked under SpecNotes *)

\* C24: Notes::parse succeeds iff the trimmed input has at most 10,000
\* characters, characters of several bytes included; on success the value is
\* the trimmed input, on failure the error is NotesTooLong.
C24_NotesCappedInCharacters ==
    op[1] = "Notes::parse" =>
        LET trimmed == trim(op[2])
        IN /\ ret[1] = "Ok" <=> Len(trimmed) <= 10000
           /\ ret[1] = "Ok" => ret[2] = trimmed
           /\ ret[1] # "Ok" => ret = <<"Err", "NotesTooLong">>


----------------------------------------------------------------------------
(* A claim about two concurrent saves, checked under SpecRace *)

\* C25: under every interleaving of the steps of two save_atomic calls on
\* the same target, the target after each rename holds a complete document
\* serialized by one of the two processes.
C25_RenameLeavesDocument ==
    [][\A p \in Procs :
          (pc[p] = "rename" /\ pc'[p] = "sync_dir") =>
              /\ file' # Absent
              /\ \E q \in Procs : json[q] # None /\ result'[file'[2]] = json[q][1]
      ]_vars


----------------------------------------------------------------------------
(* A claim about loading, checked under SpecSchema *)

\* C29: load_or_init on a path where a file exists leaves that file and the
\* temp path as they are, whether it returns a repository or fails (the file
\* is unreadable, is not JSON, has an unsupported schema version, or holds a
\* task that does not decode); when it fails there is no repository.
C29_LoadWritesNothing ==
    [][(pc = "down" /\ exists(file) /\ op'[1] = "load_or_init") =>
          /\ file' = file
          /\ tmp' = tmp
          /\ ret'[1] \in {"Ok", "Err"}
          /\ ret'[1] = "Err" => (pc' = "down" /\ todos' = todos)
          /\ ret'[1] = "Ok" => pc' = "idle"
      ]_vars

\* a file with a schema version the code does not know was refused
C29_Witness ==
    /\ op = <<"load_or_init">>
    /\ exists(file)
    /\ ret # None
    /\ ret[1] = "Err"
    /\ ret[2][1] = "unsupported schema_version"
    /\ pc = "down"


----------------------------------------------------------------------------
(* A claim about stale temp files, checked under SpecFile *)

\* C30: a temp file left by a save_atomic that failed or crashed before its
\* rename does not influence what follows: load_or_init decides by the target
\* alone and returns what the target holds, the next save_atomic starts its
\* temp file anew whatever the temp path held, and when that save ends the
\* target holds the document just serialized and the temp path is free.
C30_StaleTempIgnored ==
    [][/\ (pc = "down" /\ op'[1] = "load_or_init") =>
            /\ tmp' = tmp
            /\ exists(file) => (pc' = "idle" => <<"Ok", todos'>> = load_any(file[2]))
            /\ ~exists(file) => pc' \in {"down", "write_current"}
       /\ (pc = "create" /\ pc' = "write_all") =>
            /\ json # None
            /\ tmp' = <<"file", json[1], FALSE, FALSE>>
       /\ (pc = "sync_dir" /\ pc' = "idle") =>
            /\ Contents(file') = <<json[1], TRUE>>
            /\ json[1] = write_current(todos)[2]
            /\ tmp' = Absent
      ]_vars

\* load_or_init returned the tasks of the target while a temp file with
\* another text lay next to it
C30_Witness ==
    /\ op = <<"load_or_init">>
    /\ pc = "idle"
    /\ exists(file)
    /\ exists(tmp)
    /\ tmp[2] # file[2]
    /\ todos # <<>>


----------------------------------------------------------------------------
(* SpecCli: one invocation of the CLI after another on the same db file.  An
   invocation is run_inner from its start to its return, so the process is
   down between the steps: `file` is the db file, `todos` the tasks the
   invocation held in memory when it returned, `ret` what it returned and
   `result` the record of what happened on the way. *)

\* the identifiers TodoId::new draws: four for the defaults and one for add,
\* so that a second task is added only after the first was deleted or
\* replaced by an import
DefaultIds == <<1, 2, 3, 4>>
AddedIds == {5}

NoFlags ==
    [title |-> None, notes |-> None, clear_notes |-> FALSE, project |-> None,
     priority |-> None, due |-> None, clear_due |-> FALSE, tags |-> <<>>,
     clear_tags |-> FALSE]

\* flags of edit: accepted, a title that is not, and an accepted title
\* followed by a priority that is not
CliEditFlags ==
    {[NoFlags EXCEPT !.title = Some(<<" ", "B">>)],
     [NoFlags EXCEPT !.title = Some(<<" ">>)],
     [NoFlags EXCEPT !.title = Some(<<" ", "B">>), !.priority = Some(<<"p", "9">>)]}

\* flags of add, likewise
CliAddFlags ==
    {[title |-> t, project |-> None, notes |-> None, tags |-> <<>>, priority |-> p,
      due |-> None] :
        t \in {<<"A">>, <<" ">>}, p \in {None, Some(<<"p", "9">>)}}
    \ {[title |-> <<" ">>, project |-> None, notes |-> None, tags |-> <<>>,
        priority |-> Some(<<"p", "9">>), due |-> None]}

\* identifiers as typed: a default task's, an added task's, the short form
\* two defaults share, a text too short, and an identifier no task has
CliIdInputs ==
    {as_uuid_str(1), as_uuid_str(5), short(1), <<"a", "a", "a">>, as_uuid_str(9)}

\* the files handed to import: none, one that is not JSON, a document of no
\* tasks and a document of one task
ImportFiles ==
    {Absent, File(<<"not json">>, TRUE, TRUE),
     File(write_current(<<>>)[2], TRUE, TRUE),
     File(write_current(<<RichTodo(2)>>)[2], TRUE, TRUE)}

CliCommands ==
    {[name |-> "list"]}
    \cup {[name |-> "add", flags |-> f] : f \in CliAddFlags}
    \cup {[name |-> "done", id |-> input] : input \in CliIdInputs}
    \cup {[name |-> "undone", id |-> as_uuid_str(1)]}
    \cup {[name |-> "edit", id |-> as_uuid_str(1), flags |-> f] : f \in CliEditFlags}
    \cup {[name |-> "edit", id |-> as_uuid_str(9),
           flags |-> [NoFlags EXCEPT !.title = Some(<<" ", "B">>)]]}
    \cup {[name |-> "delete", id |-> as_uuid_str(1), yes |-> y] : y \in BOOLEAN}
    \cup {[name |-> "import", format |-> "json", file |-> f] : f \in ImportFiles}
    \cup {[name |-> "import", format |-> "xml", file |-> Absent]}

\* the db file before the first invocation: missing, or one that does not load
InitCli ==
    /\ todos = <<>>
    /\ clock = 0
    /\ op = <<"init">>
    /\ ret = None
    /\ pc = "down"
    /\ file \in {Absent, File(<<"not json">>, TRUE, TRUE)}
    /\ tmp = Absent
    /\ json = None
    /\ prior = None
    /\ result = <<>>

\* an invocation of the CLI: run_inner(ctx, cli, out)
RunInner ==
    \E cmd \in CliCommands, fresh \in AddedIds :
        /\ cmd.name # "add" => fresh = 5
        /\ \E exit \in run_inner(file, cmd, clock, DefaultIds, fresh) :
            /\ (cmd.name = "add" /\ exit.started # None) =>
                    fresh \notin Ids(exit.started[1].todos)
            /\ todos' = exit.todos
            /\ file' = exit.file
            /\ ret' = exit.ret
            /\ op' = <<"run_inner", cmd>>
            /\ result' = <<[loaded |-> exit.loaded, seeded |-> exit.seeded,
                            started |-> exit.started,
                            outcome |-> IF exit.outcome = None THEN None
                                        ELSE Some([out |-> exit.outcome[1].out,
                                                   save |-> exit.outcome[1].save])]>>
            /\ UNCHANGED <<clock, pc, tmp, json, prior>>

NextCli == RunInner

SpecCli == InitCli /\ [][NextCli]_vars


----------------------------------------------------------------------------
(* Claims about the CLI, checked under SpecCli *)

\* the tasks a db file holds, when it is there and loads
Stored(f) ==
    IF ~exists(f) THEN None
    ELSE LET loaded == load_any(read_to_string(f))
         IN IF is_ok(loaded) THEN Some(loaded[2]) ELSE None

\* C26: an invocation inserts the default tasks exactly when the repository
\* it loaded holds no task, and the defaults are in the db file by the time
\* the command is handled; an invocation that finds a db file with at least
\* one task loads exactly those tasks and hands exactly those to the command,
\* no default among them.
C26_SeedsOnlyWhenEmpty ==
    [][op'[1] = "run_inner" =>
        LET h == result'[1]
            stored == Stored(file)
        IN /\ h.loaded # None => (h.seeded <=> h.loaded[1] = <<>>)
           /\ h.loaded = None => ~h.seeded
           /\ (h.seeded /\ h.outcome # None) =>
                /\ h.started[1].todos = default_todos(DefaultIds, clock)
                /\ Stored(h.started[1].file) = Some(h.started[1].todos)
           /\ (stored # None /\ stored # Some(<<>>)) =>
                /\ ~h.seeded
                /\ h.loaded # None => h.loaded = stored
                /\ h.started # None =>
                     /\ h.started[1].todos = stored[1]
                     /\ h.started[1].file = file
      ]_vars

\* an invocation found one task left in the db file, a task that is not one
\* of the defaults, and went on to its command without seeding
C26_Witness ==
    /\ op[1] = "run_inner"
    /\ result[1].loaded # None
    /\ Len(result[1].loaded[1]) = 1
    /\ result[1].loaded[1][1].title = TitleB
    /\ ~result[1].seeded
    /\ result[1].outcome # None

\* the tasks of ts that the identifier typed in cmd names
Named(cmd, ts) ==
    {i \in 1..Len(ts) : starts_with(as_uuid_str(ts[i].id), cmd.id)}

\* the commands that are rejected on the tasks ts: a value that does not
\* parse, an identifier that does not resolve or that no task has, a task
\* already in the state asked for, delete without --yes, an unknown import
\* format, an import file that is missing or is not a document
Rejected(cmd, ts) ==
    \/ /\ cmd.name = "add"
       /\ cmd.flags.title = <<" ">> \/ cmd.flags.priority = Some(<<"p", "9">>)
    \/ /\ cmd.name = "edit"
       /\ cmd.flags.title = Some(<<" ">>) \/ cmd.flags.priority = Some(<<"p", "9">>)
    \/ /\ cmd.name = "delete"
       /\ ~cmd.yes
    \/ /\ cmd.name = "import"
       /\ \/ cmd.format # "json"
          \/ ~exists(cmd.file)
          \/ cmd.file[2] = <<"not json">>
    \/ /\ cmd.name \in {"edit", "done", "undone", "delete"}
       /\ \/ Len(cmd.id) < 4
          \/ Cardinality(Named(cmd, ts)) # 1
          \/ \E i \in Named(cmd, ts) :
                \/ cmd.name = "done" /\ is_done(ts[i].status)
                \/ cmd.name = "undone" /\ ~is_done(ts[i].status)

\* C27: a command that is rejected leaves the tasks in memory and the db file
\* as they were when start-up (load and seeding) was over, and save_atomic is
\* not called for it; add and edit with one accepted and one refused value
\* are among the rejected commands.
C27_RejectedChangesNothing ==
    (op[1] = "run_inner" /\ result[1].started # None
        /\ Rejected(op[2], result[1].started[1].todos)) =>
            /\ todos = result[1].started[1].todos
            /\ file = result[1].started[1].file
            /\ ~result[1].outcome[1].save

\* an edit with an accepted title and a refused priority, of a task that is
\* there, returned the error
C27_Witness ==
    /\ op[1] = "run_inner"
    /\ op[2].name = "edit"
    /\ op[2].flags.title = Some(<<" ", "B">>)
    /\ op[2].flags.priority = Some(<<"p", "9">>)
    /\ result[1].started # None
    /\ Named(op[2], result[1].started[1].todos) # {}
    /\ ret[1] = "Err"

SaveErrors ==
    {"failed serializing db JSON", "failed writing temp db file",
     "failed remaining temp db file"}

====
